---- MODULE Spec2Model ----
(***************************************************************************)
(* NSM: the atomic file store (utils/fileutils.go) and the settings store  *)
(* (utils config code, cmd/config.go), as state machines.                  *)
(*                                                                         *)
(* A path is a pair <<name, stamp>>: stamp 0 is the path itself, stamp     *)
(* t >= 1 is its backup "name.<t>.backup" (BackupFile).  What is at a path *)
(* is NoFile (nothing), Dir (a directory) or File(bytes), bytes being a    *)
(* sequence of numbers; the settings file holds a settings document.  A    *)
(* string the code looks into (a version, a channel, a package name) is a  *)
(* sequence of characters.                                                 *)
(***************************************************************************)
EXTENDS Integers, Sequences, FiniteSets, TLC

\* ------------------------------------------------------------------ bounds
NProcs == 2        \* goroutines
MaxTicks == 1      \* times the clock moves on to the next second
MaxFaults == 1     \* I/O failures injected in one run
MaxLines == 2      \* lines in the package list of a descriptor

\* ------------------------------------------------------------- file store
Procs == 1..NProcs
Stamps == 1..(1 + MaxTicks)

\* The spellings callers use for a path, and the files they name.
\* "/w/a" is the absolute spelling of "a" in the working directory /w.
Names == {"a", "./a", "/w/a", "b", "config.yaml", "shell.nix", "flake.nix"}
FileNames == {"a", "b", "config.yaml", "shell.nix", "flake.nix"}

\* filepath.Clean on the spellings of Names: it drops dot segments and
\* repeated separators, and leaves a relative path relative.
CleanName(n) == IF n = "./a" THEN "a" ELSE n

\* The file the operating system resolves a spelling to.
ResolveName(n) == IF n \in {"./a", "/w/a"} THEN "a" ELSE n

\* A bug: the lock is keyed by the directory (filepath.Dir for filepath.Clean),
\* one lock for all the files in it.
CleanToDir(path) == <<"a", 0>>

\* filepath.Clean(path)
Clean(path) == <<CleanName(path[1]), path[2]>>
FileOf(path) == <<ResolveName(path[1]), path[2]>>

A == <<"a", 0>>
DotA == <<"./a", 0>>
AbsA == <<"/w/a", 0>>
B == <<"b", 0>>

\* the settings file
configFile == <<"config.yaml", 0>>

\* the environment descriptors of the two dialects
shellNix == <<"shell.nix", 0>>
flakeNix == <<"flake.nix", 0>>

Files == FileNames \X ({0} \cup Stamps)
LockKeys == {CleanName(n) : n \in Names} \X ({0} \cup Stamps)

NoPath == <<"-", 0>>
NoFile == <<>>
Dir == <<0, 0>>
File(bytes) == <<bytes>>

\* The data goroutine g writes, and what a file holds at first.
DataOf(g) == <<g, g>>
InitialData == <<0, 0>>
Prefixes(bytes) == {SubSeq(bytes, 1, k) : k \in 0..(Len(bytes) - 1)}

VARIABLES
    fs,          \* [Files -> content]: the directory
    now,         \* time.Now() to the second
    fileLocks,   \* the registry (sync.Map): the keys that have a FileLock
    locked,      \* [LockKeys -> BOOLEAN]: the state of each FileLock's mutex
    held,        \* [Procs -> the locks the goroutine's frames hold, to Release]
    pc,          \* [Procs -> position in the code]
    call,        \* [Procs -> the top-level operation and its arguments]
    user,        \* [Procs -> the path whose lock the caller itself took]
    want,        \* [Procs -> the key whose mutex the goroutine is blocked on]
    tmp,         \* [Procs -> content of SafeWrite's temporary file]
    cf,          \* [Procs -> CopyFile's frame: src, dst, temporary file]
    open,        \* [Procs -> content of the file the goroutine has open for reading]
    bk,          \* [Procs -> outcome of the backup step: "none", "ok", "err"]
    ret,         \* [Procs -> result of the top-level operation]
    rd,          \* [Procs -> the bytes SafeRead returned]
    pre,         \* [Procs -> content of the target when the operation was called]
    faults,      \* I/O failures injected so far
    viper,       \* the settings in memory: viper's layers, and whether it knows its file
    loc          \* [Procs -> arguments and local variables of a settings operation]

settings == <<viper, loc>>

vars == <<fs, now, fileLocks, locked, held, pc, call, user, want, tmp, cf, open, bk,
          ret, rd, pre, faults, viper, loc>>

NoCall == [op |-> "none", path |-> NoPath, dst |-> NoPath]
NoFrame == [src |-> NoPath, dst |-> NoPath, tmp |-> NoFile]

\* os.Stat(path) finds something
Exists(path) == fs[FileOf(path)] # NoFile

\* FileExists: os.Stat(path) finds something that is no directory
FileExists(path) == Len(fs[FileOf(path)]) = 1

\* os.Rename(tmpPath, path) cannot replace a directory by a file.
CanRename(path) == fs[FileOf(path)] # Dir

\* The backup path BackupFile builds: path.<timestamp>.backup
BackupPath(path, t) == <<path[1], t>>

CanFail == faults < MaxFaults

\* AcquireLock, first half: fileLocks.LoadOrStore(normalizedPath, ...)
LoadOrStore(path) == fileLocks \cup {Clean(path)}

\* A bug: every AcquireLock makes a FileLock of its own (Store for
\* LoadOrStore), so mu.Lock() never finds the mutex locked.
MutexLockOwn(g) ==
    /\ want[g] # NoPath
    /\ locked' = [locked EXCEPT ![want[g]] = TRUE]
    /\ held' = [held EXCEPT ![g] = @ \cup {want[g]}]
    /\ want' = [want EXCEPT ![g] = NoPath]
    /\ UNCHANGED <<fs, now, fileLocks, pc, call, user, tmp, cf, open, bk, ret, rd, pre,
                   faults>>
    /\ UNCHANGED settings

\* AcquireLock, second half: lock.mu.Lock() blocks while the mutex is locked.
MutexLock(g) ==
    /\ want[g] # NoPath
    /\ ~locked[want[g]]
    /\ locked' = [locked EXCEPT ![want[g]] = TRUE]
    /\ held' = [held EXCEPT ![g] = @ \cup {want[g]}]
    /\ want' = [want EXCEPT ![g] = NoPath]
    /\ UNCHANGED <<fs, now, fileLocks, pc, call, user, tmp, cf, open, bk, ret, rd, pre,
                   faults>>
    /\ UNCHANGED settings

\* Release: l.mu.Unlock(), for each of the locks in keys
Release(g, keys) ==
    /\ locked' = [k \in LockKeys |-> IF k \in keys THEN FALSE ELSE locked[k]]
    /\ held' = [held EXCEPT ![g] = @ \ keys]

\* The goroutine is running (not blocked in mu.Lock) at position p.
At(g, p) == pc[g] = p /\ want[g] = NoPath

\* The goroutine is about to call an operation of the file store.
Calling(g) == At(g, "idle") \/ At(g, "cs")

\* time passes
Tick ==
    /\ now <= MaxTicks
    /\ now' = now + 1
    /\ UNCHANGED <<fs, fileLocks, locked, held, pc, call, user, want, tmp, cf, open, bk,
                   ret, rd, pre, faults>>
    /\ UNCHANGED settings

\* cleanup(): file.Close(); os.Remove(tmpPath) - the temporary file is gone.
cleanup(t) == NoFile

\* A bug: the error path returns without os.Remove(tmpPath).
RemoveForgotten(t) == t

\* os.Remove(tmpPath)
Remove(t) == NoFile

\* --------------------------------------------------------------- SafeWrite
\* The I/O calls SafeWrite makes on its temporary file, in order.
TempSteps == {"mkdir", "temp", "write", "sync", "close", "chmod"}

\* The temporary file after these calls, when the call failedAt fails (or
\* "none" does): EnsureDir and CreateTemp leave none, a failed Write leaves
\* part of the data and cleanup() runs, a failed Sync runs cleanup(), a
\* failed Close or Chmod runs os.Remove.
TempFile(data, failedAt) ==
    CASE failedAt \in {"mkdir", "temp"} -> {NoFile}
      [] failedAt = "write" -> {cleanup(File(part)) : part \in Prefixes(data)}
      [] failedAt = "sync" -> {cleanup(File(data))}
      [] failedAt \in {"close", "chmod"} -> {Remove(File(data))}
      [] OTHER -> {File(data)}

\* SafeWrite(path, DataOf(g), perm), up to os.Chmod: all of it works on the
\* goroutine's own temporary file.
SafeWrite(g, path) ==
    /\ Calling(g)
    /\ call' = [call EXCEPT ![g] = [op |-> "SafeWrite", path |-> path, dst |-> NoPath]]
    /\ pre' = [pre EXCEPT ![g] = fs[FileOf(path)]]
    /\ \E failedAt \in TempSteps \cup {"none"} :
        /\ tmp' \in {[tmp EXCEPT ![g] = t] : t \in TempFile(DataOf(g), failedAt)}
        /\ IF failedAt = "none"
           THEN /\ pc' = [pc EXCEPT ![g] = "sw_exists"]
                /\ UNCHANGED <<ret, faults>>
           ELSE /\ CanFail
                /\ faults' = faults + 1
                /\ ret' = [ret EXCEPT ![g] = "err"]
                /\ pc' = [pc EXCEPT ![g] = "ret"]
    /\ UNCHANGED <<fs, now, fileLocks, locked, held, user, want, cf, open, bk, rd>>
    /\ UNCHANGED settings

\* BackupFile(path): FileExists(path), the timestamp, then CopyFile(path,
\* backupPath), which checks src == dst and FileExists(src) and calls
\* AcquireLock(src).  The file was just seen to exist.
BackupFile(g, path) ==
    /\ cf' = [cf EXCEPT ![g] = [src |-> path, dst |-> BackupPath(path, now),
                                tmp |-> NoFile]]
    /\ fileLocks' = LoadOrStore(path)
    /\ want' = [want EXCEPT ![g] = Clean(path)]
    /\ pc' = [pc EXCEPT ![g] = "cf_dst"]

\* A bug: no backup is taken, SafeWrite goes straight on to AcquireLock(path).
SW_NoBackup(g) ==
    /\ At(g, "sw_exists")
    /\ pc' = [pc EXCEPT ![g] = "sw_rename"]
    /\ fileLocks' = LoadOrStore(call[g].path)
    /\ want' = [want EXCEPT ![g] = Clean(call[g].path)]
    /\ UNCHANGED <<fs, now, locked, held, call, user, tmp, cf, open, bk, ret, rd, pre,
                   faults>>
    /\ UNCHANGED settings

\* A bug: AcquireLock(path) comes before the backup, as it does in RemovePath,
\* so that CopyFile waits for the lock its own caller holds.
SW_BackupUnderLock(g) ==
    /\ At(g, "sw_exists")
    /\ ~locked[Clean(call[g].path)]
    /\ locked' = [locked EXCEPT ![Clean(call[g].path)] = TRUE]
    /\ held' = [held EXCEPT ![g] = @ \cup {Clean(call[g].path)}]
    /\ BackupFile(g, call[g].path)
    /\ UNCHANGED <<fs, now, call, user, tmp, open, bk, ret, rd, pre, faults>>
    /\ UNCHANGED settings

\* if FileExists(path) { BackupFile(path) }, then AcquireLock(path)
SW_Backup(g) ==
    /\ At(g, "sw_exists")
    /\ IF FileExists(call[g].path)
       THEN BackupFile(g, call[g].path)
       ELSE /\ pc' = [pc EXCEPT ![g] = "sw_rename"]
            /\ fileLocks' = LoadOrStore(call[g].path)
            /\ want' = [want EXCEPT ![g] = Clean(call[g].path)]
            /\ UNCHANGED cf
    /\ UNCHANGED <<fs, now, locked, held, call, user, tmp, open, bk, ret, rd, pre, faults>>
    /\ UNCHANGED settings

\* A bug: the data is written into the file at path itself (os.WriteFile), which
\* a failure leaves with part of the data.
SW_WriteInPlace(g) ==
    /\ At(g, "sw_rename")
    /\ \/ /\ fs' = [fs EXCEPT ![FileOf(call[g].path)] = tmp[g]]
          /\ ret' = [ret EXCEPT ![g] = "ok"]
          /\ UNCHANGED faults
       \/ /\ CanFail
          /\ faults' = faults + 1
          /\ \E part \in Prefixes(DataOf(g)) :
                fs' = [fs EXCEPT ![FileOf(call[g].path)] = File(part)]
          /\ ret' = [ret EXCEPT ![g] = "err"]
    /\ tmp' = [tmp EXCEPT ![g] = NoFile]
    /\ Release(g, {Clean(call[g].path)})
    /\ pc' = [pc EXCEPT ![g] = "ret"]
    /\ UNCHANGED <<now, fileLocks, call, user, want, cf, open, bk, rd, pre>>
    /\ UNCHANGED settings

\* os.Rename(tmpPath, path) under the lock of path, os.Remove(tmpPath) when it
\* fails; the deferred lock.Release() runs on return.
SW_Rename(g) ==
    /\ At(g, "sw_rename")
    /\ \/ /\ CanRename(call[g].path)
          /\ fs' = [fs EXCEPT ![FileOf(call[g].path)] = tmp[g]]
          /\ tmp' = [tmp EXCEPT ![g] = NoFile]
          /\ ret' = [ret EXCEPT ![g] = "ok"]
          /\ UNCHANGED faults
       \/ /\ IF CanRename(call[g].path)
             THEN CanFail /\ faults' = faults + 1
             ELSE UNCHANGED faults
          /\ tmp' = [tmp EXCEPT ![g] = Remove(tmp[g])]
          /\ ret' = [ret EXCEPT ![g] = "err"]
          /\ UNCHANGED fs
    /\ Release(g, {Clean(call[g].path)})
    /\ pc' = [pc EXCEPT ![g] = "ret"]
    /\ UNCHANGED <<now, fileLocks, call, user, want, cf, open, bk, rd, pre>>
    /\ UNCHANGED settings

\* ---------------------------------------------------------------- CopyFile
\* CopyFile hands its result to the function that called it: SafeWrite logs
\* a failed backup and goes on to AcquireLock(path), RemovePath goes on to
\* os.RemoveAll, SaveConfig and MigrateConfig log a failed backup and go on to
\* viper.WriteConfig(), and a CopyFile the caller made itself returns.
Resume(g, result) ==
    /\ cf' = [cf EXCEPT ![g] = NoFrame]
    /\ open' = [open EXCEPT ![g] = NoFile]
    /\ CASE call[g].op = "SafeWrite" ->
                /\ bk' = [bk EXCEPT ![g] = result]
                /\ pc' = [pc EXCEPT ![g] = "sw_rename"]
                /\ fileLocks' = LoadOrStore(call[g].path)
                /\ want' = [want EXCEPT ![g] = Clean(call[g].path)]
                /\ UNCHANGED ret
         [] call[g].op = "RemovePath" ->
                /\ bk' = [bk EXCEPT ![g] = result]
                /\ pc' = [pc EXCEPT ![g] = "rp_remove"]
                /\ UNCHANGED <<fileLocks, want, ret>>
         [] call[g].op \in {"SaveConfig", "MigrateConfig"} ->
                /\ bk' = [bk EXCEPT ![g] = result]
                /\ pc' = [pc EXCEPT ![g] = "write"]
                /\ UNCHANGED <<fileLocks, want, ret>>
         [] call[g].op = "configReset" ->
                /\ bk' = [bk EXCEPT ![g] = result]
                /\ pc' = [pc EXCEPT ![g] = "reset_set"]
                /\ UNCHANGED <<fileLocks, want, ret>>
         [] call[g].op = "add" ->
                /\ bk' = [bk EXCEPT ![g] = result]
                /\ IF result = "ok" /\ FileExists(call[g].path)
                   THEN /\ fileLocks' = LoadOrStore(call[g].path)
                        /\ want' = [want EXCEPT ![g] = Clean(call[g].path)]
                        /\ pc' = [pc EXCEPT ![g] = "sr_open"]
                        /\ UNCHANGED ret
                   ELSE /\ ret' = [ret EXCEPT ![g] = "err"]
                        /\ pc' = [pc EXCEPT ![g] = "ret"]
                        /\ UNCHANGED <<fileLocks, want>>
         [] call[g].op = "remove" ->
                /\ bk' = [bk EXCEPT ![g] = result]
                /\ IF result = "ok"
                   THEN /\ pc' = [pc EXCEPT ![g] = "remove_write"]
                        /\ UNCHANGED ret
                   ELSE /\ ret' = [ret EXCEPT ![g] = "err"]
                        /\ pc' = [pc EXCEPT ![g] = "ret"]
                /\ UNCHANGED <<fileLocks, want>>
         [] OTHER ->
                /\ ret' = [ret EXCEPT ![g] = result]
                /\ pc' = [pc EXCEPT ![g] = "ret"]
                /\ UNCHANGED <<fileLocks, want, bk>>

\* A caller calls CopyFile(src, dst): src == dst, FileExists(src), then
\* AcquireLock(src).
CopyFile(g, src, dst) ==
    /\ Calling(g)
    /\ call' = [call EXCEPT ![g] = [op |-> "CopyFile", path |-> src, dst |-> dst]]
    /\ pre' = [pre EXCEPT ![g] = fs[FileOf(dst)]]
    /\ IF src = dst \/ ~FileExists(src)
       THEN /\ ret' = [ret EXCEPT ![g] = "err"]
            /\ pc' = [pc EXCEPT ![g] = "ret"]
            /\ UNCHANGED <<cf, fileLocks, want>>
       ELSE /\ cf' = [cf EXCEPT ![g] = [src |-> src, dst |-> dst, tmp |-> NoFile]]
            /\ fileLocks' = LoadOrStore(src)
            /\ want' = [want EXCEPT ![g] = Clean(src)]
            /\ pc' = [pc EXCEPT ![g] = "cf_dst"]
            /\ UNCHANGED ret
    /\ UNCHANGED <<fs, now, locked, held, user, tmp, open, bk, rd, faults>>
    /\ UNCHANGED settings

\* AcquireLock(dst), holding the lock of src
CF_LockDst(g) ==
    /\ At(g, "cf_dst")
    /\ fileLocks' = LoadOrStore(cf[g].dst)
    /\ want' = [want EXCEPT ![g] = Clean(cf[g].dst)]
    /\ pc' = [pc EXCEPT ![g] = "cf_copy"]
    /\ UNCHANGED <<fs, now, locked, held, call, user, tmp, cf, open, bk, ret, rd, pre,
                   faults>>
    /\ UNCHANGED settings

\* CopyFile returns holding both locks: the deferred Release calls run.
CF_Return(g, result) ==
    /\ Release(g, {Clean(cf[g].dst), Clean(cf[g].src)})
    /\ Resume(g, result)
    /\ UNCHANGED <<now, call, user, tmp, rd, pre>>

\* The I/O calls CopyFile makes before the rename, in order; after a failed
\* one the temporary file is removed (cleanup() or os.Remove) and err returned.
CopySteps == {"open", "mkdir", "temp", "copy", "sync", "close", "stat", "chmod"}

\* os.Open(src) ... os.Chmod(tmpPath, mode): the temporary file gets the
\* content the source has when it is opened.
CF_Copy(g) ==
    /\ At(g, "cf_copy")
    /\ \/ /\ FileExists(cf[g].src)
          /\ open' = [open EXCEPT ![g] = fs[FileOf(cf[g].src)]]
          /\ cf' = [cf EXCEPT ![g].tmp = fs[FileOf(cf[g].src)]]
          /\ pc' = [pc EXCEPT ![g] = "cf_rename"]
          /\ UNCHANGED <<fs, now, fileLocks, locked, held, call, user, want, tmp, bk,
                         ret, rd, pre, faults>>
       \/ /\ ~FileExists(cf[g].src)
          /\ CF_Return(g, "err")
          /\ UNCHANGED <<fs, faults>>
       \/ /\ CanFail
          /\ \E failedAt \in CopySteps : faults' = faults + 1
          /\ CF_Return(g, "err")
          /\ UNCHANGED fs
    /\ UNCHANGED settings

\* os.Rename(tmpPath, dst): the destination is replaced in one step; when it
\* fails os.Remove(tmpPath).
CF_Rename(g) ==
    /\ At(g, "cf_rename")
    /\ \/ /\ CanRename(cf[g].dst)
          /\ fs' = [fs EXCEPT ![FileOf(cf[g].dst)] = cf[g].tmp]
          /\ CF_Return(g, "ok")
          /\ UNCHANGED faults
       \/ /\ IF CanRename(cf[g].dst)
             THEN CanFail /\ faults' = faults + 1
             ELSE UNCHANGED faults
          /\ CF_Return(g, "err")
          /\ UNCHANGED fs
    /\ UNCHANGED settings

\* ---------------------------------------------------------------- SafeRead
\* A caller calls SafeRead(path): FileExists(path), then AcquireLock(path).
SafeRead(g, path) ==
    /\ Calling(g)
    /\ call' = [call EXCEPT ![g] = [op |-> "SafeRead", path |-> path, dst |-> NoPath]]
    /\ pre' = [pre EXCEPT ![g] = fs[FileOf(path)]]
    /\ IF FileExists(path)
       THEN /\ fileLocks' = LoadOrStore(path)
            /\ want' = [want EXCEPT ![g] = Clean(path)]
            /\ pc' = [pc EXCEPT ![g] = "sr_open"]
            /\ UNCHANGED ret
       ELSE /\ ret' = [ret EXCEPT ![g] = "err"]
            /\ pc' = [pc EXCEPT ![g] = "ret"]
            /\ UNCHANGED <<fileLocks, want>>
    /\ UNCHANGED <<fs, now, locked, held, user, tmp, cf, open, bk, rd, faults>>
    /\ UNCHANGED settings

\* A bug: lock.Release() is called at the end of SafeRead instead of being
\* deferred, so the error returns skip it.
SR_ReturnHolding(g, result, data) ==
    /\ ret' = [ret EXCEPT ![g] = result]
    /\ rd' = [rd EXCEPT ![g] = data]
    /\ open' = [open EXCEPT ![g] = NoFile]
    /\ IF result = "ok" THEN Release(g, {Clean(call[g].path)})
                        ELSE UNCHANGED <<locked, held>>
    /\ pc' = [pc EXCEPT ![g] = "ret"]
    /\ UNCHANGED <<fs, now, fileLocks, call, user, want, tmp, cf, bk, pre>>

\* Where the caller of ReadFile goes on when it has the text: nsm add to the
\* insertion, nsm list to the matching, CheckProjectFiles to its result (with
\* the error as well); SafeRead called by itself returns.
AfterRead(g, result) ==
    IF call[g].op = "RunDiagnostics" THEN "check"
    ELSE IF result # "ok" THEN "ret"
    ELSE CASE call[g].op = "add" -> "add_insert"
           [] call[g].op = "list" -> "list_extract"
           [] OTHER -> "ret"

\* SafeRead returns: the deferred file.Close() and lock.Release() run.
SR_Return(g, result, data) ==
    /\ ret' = [ret EXCEPT ![g] = result]
    /\ rd' = [rd EXCEPT ![g] = data]
    /\ open' = [open EXCEPT ![g] = NoFile]
    /\ Release(g, {Clean(call[g].path)})
    /\ pc' = [pc EXCEPT ![g] = AfterRead(g, result)]
    /\ UNCHANGED <<fs, now, fileLocks, call, user, want, tmp, cf, bk, pre>>

\* os.OpenFile(path, os.O_RDONLY, 0): the open file keeps the content it was
\* opened on, since a path is only ever replaced by a rename.
SR_Open(g) ==
    /\ At(g, "sr_open")
    /\ \/ /\ FileExists(call[g].path)
          /\ open' = [open EXCEPT ![g] = fs[FileOf(call[g].path)]]
          /\ pc' = [pc EXCEPT ![g] = "sr_read"]
          /\ UNCHANGED <<fs, now, fileLocks, locked, held, call, user, want, tmp, cf, bk,
                         ret, rd, pre, faults>>
       \/ /\ ~FileExists(call[g].path)
          /\ SR_Return(g, "err", NoFile)
          /\ UNCHANGED faults
       \/ /\ CanFail
          /\ faults' = faults + 1
          /\ SR_Return(g, "err", NoFile)
    /\ UNCHANGED settings

\* io.ReadAll(file): the whole content, or an error and no data
SR_Read(g) ==
    /\ At(g, "sr_read")
    /\ \/ /\ SR_Return(g, "ok", open[g])
          /\ UNCHANGED faults
       \/ /\ CanFail
          /\ faults' = faults + 1
          /\ SR_Return(g, "err", NoFile)
    /\ UNCHANGED settings

\* -------------------------------------------------------------- RemovePath
\* A caller calls RemovePath(path): none of Names is "", "/", "." or "..",
\* so AcquireLock(path) comes first.
RemovePath(g, path) ==
    /\ Calling(g)
    /\ call' = [call EXCEPT ![g] = [op |-> "RemovePath", path |-> path, dst |-> NoPath]]
    /\ pre' = [pre EXCEPT ![g] = fs[FileOf(path)]]
    /\ fileLocks' = LoadOrStore(path)
    /\ want' = [want EXCEPT ![g] = Clean(path)]
    /\ pc' = [pc EXCEPT ![g] = "rp_stat"]
    /\ UNCHANGED <<fs, now, locked, held, user, tmp, cf, open, bk, ret, rd, faults>>
    /\ UNCHANGED settings

\* os.Stat(path): nothing there, return nil (the deferred Release runs); a
\* file there, BackupFile(path); a directory there, on to os.RemoveAll
RP_Stat(g) ==
    /\ At(g, "rp_stat")
    /\ CASE FileExists(call[g].path) ->
                /\ BackupFile(g, call[g].path)
                /\ UNCHANGED <<locked, held, ret>>
         [] Exists(call[g].path) /\ ~FileExists(call[g].path) ->
                /\ pc' = [pc EXCEPT ![g] = "rp_remove"]
                /\ UNCHANGED <<locked, held, ret, cf, fileLocks, want>>
         [] OTHER ->
                /\ ret' = [ret EXCEPT ![g] = "ok"]
                /\ Release(g, {Clean(call[g].path)})
                /\ pc' = [pc EXCEPT ![g] = "ret"]
                /\ UNCHANGED <<cf, fileLocks, want>>
    /\ UNCHANGED <<fs, now, call, user, tmp, open, bk, rd, pre, faults>>
    /\ UNCHANGED settings

\* os.RemoveAll(path), then return: the deferred lock.Release() runs.
RP_Remove(g) ==
    /\ At(g, "rp_remove")
    /\ \/ /\ fs' = [fs EXCEPT ![FileOf(call[g].path)] = NoFile]
          /\ ret' = [ret EXCEPT ![g] = "ok"]
          /\ UNCHANGED faults
       \/ /\ CanFail
          /\ faults' = faults + 1
          /\ ret' = [ret EXCEPT ![g] = "err"]
          /\ UNCHANGED fs
    /\ Release(g, {Clean(call[g].path)})
    /\ pc' = [pc EXCEPT ![g] = "ret"]
    /\ UNCHANGED <<now, fileLocks, call, user, want, tmp, cf, open, bk, rd, pre>>
    /\ UNCHANGED settings

\* ------------------------------------------------- AcquireLock by a caller
\* lock := AcquireLock(path); defer lock.Release()   (TestFileLock)
AcquireLock(g, path) ==
    /\ At(g, "idle")
    /\ user' = [user EXCEPT ![g] = path]
    /\ fileLocks' = LoadOrStore(path)
    /\ want' = [want EXCEPT ![g] = Clean(path)]
    /\ pc' = [pc EXCEPT ![g] = "cs"]
    /\ UNCHANGED <<fs, now, locked, held, call, tmp, cf, open, bk, ret, rd, pre, faults>>
    /\ UNCHANGED settings

\* the caller's deferred lock.Release(), after its work
UserRelease(g) ==
    /\ At(g, "cs") \/ At(g, "ret")
    /\ user[g] # NoPath
    /\ Release(g, {Clean(user[g])})
    /\ user' = [user EXCEPT ![g] = NoPath]
    /\ pc' = [pc EXCEPT ![g] = "end"]
    /\ UNCHANGED <<fs, now, fileLocks, call, want, tmp, cf, open, bk, ret, rd, pre, faults>>
    /\ UNCHANGED settings
\* ----------------------------------------------------- strings of settings
nixos_ == <<"n", "i", "x", "o", "s", "-">>
nixpkgs_ == <<"n", "i", "x", "p", "k", "g", "s", "-">>
nixos_unstable == nixos_ \o <<"u", "n", "s", "t", "a", "b", "l", "e">>
nixpkgs_unstable == nixpkgs_ \o <<"u", "n", "s", "t", "a", "b", "l", "e">>
stable == <<"s", "t", "a", "b", "l", "e">>
shell_nix == <<"s", "h", "e", "l", "l", ".", "n", "i", "x">>
flake_nix == <<"f", "l", "a", "k", "e", ".", "n", "i", "x">>
v1_0_0 == <<"1", ".", "0", ".", "0">>
v1_1_0 == <<"1", ".", "1", ".", "0">>
v2_0_0 == <<"2", ".", "0", ".", "0">>
v12_3_0 == <<"1", "2", ".", "3", ".", "0">>
minus1_0_0 == <<"-", "1", ".", "0", ".", "0">>
gcc == <<"g", "c", "c">>
g_cc == <<"g", " ", "c", "c">>

Digits == {"0", "1", "2", "3", "4", "5", "6", "7", "8", "9"}
Letters ==
    {"a", "b", "c", "d", "e", "f", "g", "h", "i", "j", "k", "l", "m", "n", "o", "p", "q",
     "r", "s", "t", "u", "v", "w", "x", "y", "z", "A", "B", "C", "D", "E", "F", "G", "H",
     "I", "J", "K", "L", "M", "N", "O", "P", "Q", "R", "S", "T", "U", "V", "W", "X", "Y",
     "Z"}

\* validChars of ValidatePackage
validChars == Letters \cup Digits \cup {"-", "_", "."}

\* strings.HasPrefix(s, prefix)
HasPrefix(s, prefix) == Len(s) >= Len(prefix) /\ SubSeq(s, 1, Len(prefix)) = prefix

\* strings.TrimPrefix(s, prefix)
TrimPrefix(s, prefix) ==
    IF HasPrefix(s, prefix) THEN SubSeq(s, Len(prefix) + 1, Len(s)) ELSE s

\* strings.Index(s, sep) for a separator of one character; 0 when it is not in s
Index(s, sep) ==
    IF \E i \in 1..Len(s) : s[i] = sep
    THEN CHOOSE i \in 1..Len(s) : s[i] = sep /\ \A j \in 1..(i - 1) : s[j] # sep
    ELSE 0

\* strings.Split(s, sep) for a separator of one character
RECURSIVE Split(_, _)
Split(s, sep) ==
    LET i == Index(s, sep)
    IN  IF i = 0 THEN <<s>>
        ELSE <<SubSeq(s, 1, i - 1)>> \o Split(SubSeq(s, i + 1, Len(s)), sep)

\* strconv.Atoi(s) returns no error: an optional sign, then one digit or more
Atoi(s) ==
    LET number == IF Len(s) > 0 /\ s[1] \in {"+", "-"} THEN Tail(s) ELSE s
    IN  Len(number) > 0 /\ \A i \in 1..Len(number) : number[i] \in Digits

\* isValidVersion(version)
isValidVersion(version) ==
    LET parts == Split(TrimPrefix(version, <<"v">>), ".")
    IN  Len(parts) = 3 /\ \A i \in 1..3 : Atoi(parts[i])

\* ValidatePackage(pkg)
ValidatePackage(pkg) == Len(pkg) > 0 /\ \A i \in 1..Len(pkg) : pkg[i] \in validChars

\* -------------------------------------------------------------------- viper
\* viper keeps the settings in layers, each a tree of keys: what viper.Set
\* stored (override), what ReadInConfig read from the settings file (config)
\* and what viper.SetDefault stored (defaults).  A layer is given by what it
\* has at the top-level keys: nothing (NoVal) or a value (Val), and at
\* "channel" nothing, nil, a string (the old flat key) or the map that holds
\* "url" (the key "channel.url").
TopKeys == {"channel", "shell.format", "default.packages", "config_version", "pins"}
NoVal == <<>>
Val(v) == <<v>>
NilVal == <<"nil">>
Flat(s) == <<"flat", s>>
Nested(url) == <<"map", url>>
IsFlat(c) == Len(c) = 2 /\ c[1] = "flat"
IsNested(c) == Len(c) = 2 /\ c[1] = "map"

NoLayer == [k \in TopKeys |-> NoVal]
Layers(v) == <<v.override, v.config, v.defaults>>

\* viper before anything is set or read
NoSettings ==
    [override |-> NoLayer, config |-> NoLayer, defaults |-> NoLayer, configFile |-> NoPath]

\* v.find("channel.url"): the first layer that has the map decides; a layer
\* that has a string at "channel" shadows the layers below it.
RECURSIVE FindUrl(_)
FindUrl(layers) ==
    IF Len(layers) = 0 THEN NoVal
    ELSE IF IsNested(Head(layers)["channel"]) THEN Val(Head(layers)["channel"][2])
    ELSE IF IsFlat(Head(layers)["channel"]) THEN NoVal
    ELSE FindUrl(Tail(layers))

\* v.find("channel"): the first layer that has a value other than nil there
RECURSIVE FindChannel(_)
FindChannel(layers) ==
    IF Len(layers) = 0 THEN NoVal
    ELSE IF IsFlat(Head(layers)["channel"]) \/ IsNested(Head(layers)["channel"])
         THEN Head(layers)["channel"]
    ELSE FindChannel(Tail(layers))

\* v.find(key): viper.Get(key), nil being NoVal
Find(v, key) ==
    IF key = "channel.url" THEN FindUrl(Layers(v))
    ELSE IF key = "channel" THEN FindChannel(Layers(v))
    ELSE IF Len(v.override[key]) > 0 THEN v.override[key]
    ELSE IF Len(v.config[key]) > 0 THEN v.config[key]
    ELSE v.defaults[key]

\* viper.IsSet(key)
IsSet(v, key) == Len(Find(v, key)) > 0

\* viper.GetString(key): "" for a key that is not set and for a map
GetString(v, key) ==
    CASE Len(Find(v, key)) = 1 -> Find(v, key)[1]
      [] IsFlat(Find(v, key)) -> Find(v, key)[2]
      [] OTHER -> <<>>

\* viper.GetStringSlice(key), viper.GetStringMapString(key): empty when not set
GetStringSlice(v, key) == IF IsSet(v, key) THEN Find(v, key)[1] ELSE <<>>
GetStringMapString(v, key) == IF IsSet(v, key) THEN Find(v, key)[1] ELSE <<>>

\* viper.Set(key, value): Set("channel.url", ...) puts a new map at "channel"
\* of the override layer, whatever was there.
Set(v, key, value) ==
    IF key = "channel.url"
    THEN [v EXCEPT !.override["channel"] = Nested(value)]
    ELSE [v EXCEPT !.override[key] = Val(value)]

\* viper.Set("channel", nil): nil replaces what the override layer has at
\* "channel", the map with "url" included.
SetNil(v, key) == [v EXCEPT !.override[key] = NilVal]

\* viper.AllKeys(), the keys at and below "channel": a layer adds "channel"
\* for a string or nil, and "channel.url" for a map unless a layer above it
\* has added "channel".
RECURSIVE ChannelKeys(_, _)
ChannelKeys(layers, shadow) ==
    IF Len(layers) = 0 THEN shadow
    ELSE IF IsNested(Head(layers)["channel"])
         THEN ChannelKeys(Tail(layers),
                          IF "channel" \in shadow THEN shadow
                          ELSE shadow \cup {"channel.url"})
    ELSE IF Len(Head(layers)["channel"]) > 0
         THEN ChannelKeys(Tail(layers), shadow \cup {"channel"})
    ELSE ChannelKeys(Tail(layers), shadow)

\* What viper.AllSettings() can have at "channel": it stores Get(key) for each
\* of AllKeys() that has a value, in the order of a Go map, which is any order;
\* a string stored at "channel" is replaced by the map when "channel.url"
\* comes after it, and the map by the string when "channel" comes after it.
ChannelSettings(v) ==
    LET keys == ChannelKeys(Layers(v), {})
        channel == IF "channel" \in keys THEN Find(v, "channel") ELSE NoVal
        url == IF "channel.url" \in keys THEN Find(v, "channel.url") ELSE NoVal
        map == IF Len(url) > 0 THEN Nested(url[1]) ELSE NoVal
    IN  {IF Len(map) > 0 THEN map ELSE channel,
         IF Len(channel) > 0 THEN channel ELSE map}

\* viper.AllSettings(): the documents WriteConfig can write
AllSettings(v) ==
    {[k \in TopKeys |-> IF k = "channel" THEN c ELSE Find(v, k)] :
        c \in ChannelSettings(v)}

\* viper.ReadInConfig(): the config layer is what the settings file holds
ReadInConfig(v, file) ==
    IF Len(file) = 1
    THEN [v EXCEPT !.config = file[1], !.configFile = configFile]
    ELSE v

\* viper.ConfigFileUsed(): "" (NoPath) until viper has looked for its file
ConfigFileUsed(v) == v.configFile

\* ----------------------------------------------------------- ValidateConfig
ConfigValidationError(Key, Message) == <<Key, Message>>

RECURSIVE PinErrors(_)
PinErrors(pins) ==
    IF Len(pins) = 0 THEN <<>>
    ELSE (IF ValidatePackage(Head(pins)[1]) THEN <<>>
          ELSE <<ConfigValidationError("pins", "invalid package name in pins")>>)
         \o (IF isValidVersion(Head(pins)[2]) THEN <<>>
             ELSE <<ConfigValidationError("pins", "invalid version for package")>>)
         \o PinErrors(Tail(pins))

RECURSIVE PackageErrors(_)
PackageErrors(pkgs) ==
    IF Len(pkgs) = 0 THEN <<>>
    ELSE (IF ValidatePackage(Head(pkgs)) THEN <<>>
          ELSE <<ConfigValidationError("default.packages", "invalid package name")>>)
         \o PackageErrors(Tail(pkgs))

\* ValidateConfig(): the errors, in the order the rules are checked; pins is
\* a sequence of <<package, version>> in the order the map is ranged over.
ValidateConfig(v) ==
    LET channelURL == GetString(v, "channel.url")
        shellFormat == GetString(v, "shell.format")
        version == GetString(v, "config_version")
    IN  (IF Len(channelURL) = 0
         THEN <<ConfigValidationError("channel.url", "channel URL is required")>>
         ELSE IF ~HasPrefix(channelURL, nixos_) /\ ~HasPrefix(channelURL, nixpkgs_)
              THEN <<ConfigValidationError("channel.url", "channel URL must start with")>>
              ELSE <<>>)
        \o (IF shellFormat # shell_nix /\ shellFormat # flake_nix
            THEN <<ConfigValidationError("shell.format", "shell format must be either")>>
            ELSE <<>>)
        \o (IF ~IsSet(v, "default.packages")
            THEN <<ConfigValidationError("default.packages", "setting is required")>>
            ELSE PackageErrors(GetStringSlice(v, "default.packages")))
        \o (IF Len(version) = 0
            THEN <<ConfigValidationError("config_version", "config version is required")>>
            ELSE IF ~isValidVersion(version)
                 THEN <<ConfigValidationError("config_version", "invalid config version")>>
                 ELSE <<>>)
        \o PinErrors(GetStringMapString(v, "pins"))

\* ------------------------------------------------------ settings operations
\* A *Config: nil (NoVal) or a pointer to the struct (Val).
ValidConfig ==
    [Pins |-> <<<<gcc, v12_3_0>>>>, DefaultPackages |-> <<gcc>>,
     ChannelURL |-> nixpkgs_unstable, ShellFormat |-> flake_nix, Version |-> v1_1_0]

\* TestSaveConfig: only Pins is set, the other fields are zero values
PinsOnly ==
    [Pins |-> <<<<gcc, v12_3_0>>>>, DefaultPackages |-> <<>>, ChannelURL |-> <<>>,
     ShellFormat |-> <<>>, Version |-> <<>>]

BadPackage == [ValidConfig EXCEPT !.DefaultPackages = <<g_cc>>]
SignedVersion == [ValidConfig EXCEPT !.Version = minus1_0_0]
OldConfig == [ValidConfig EXCEPT !.Version = v1_0_0]
OldBadPackage == [BadPackage EXCEPT !.Version = v1_0_0]

Configs == {NoVal} \cup {Val(c) : c \in {ValidConfig, PinsOnly, BadPackage, SignedVersion,
                                    OldConfig, OldBadPackage}}

\* nsm config set <key> <value>
SetArgs ==
    {<<"channel.url", nixpkgs_unstable>>, <<"channel.url", stable>>,
     <<"shell.format", stable>>}

\* The exec.Cmd of a c.Run() call before cmd.Start(): the external process,
\* the context, the channel done, the buffer stdout, what the call returned
\* and the number of times the command was started.
NoCmd ==
    [process |-> "none", ctx |-> "none", done |-> "empty", stdout |-> "",
     output |-> "", err |-> "nil", attempts |-> 0]

\* The local variables of the settings operations and of the commands.
NoLocals ==
    [config |-> NoVal, key |-> "", value |-> <<>>, oldValue |-> NoVal,
     needsSave |-> FALSE, errors |-> <<>>, args |-> <<>>, packages |-> <<>>,
     content |-> <<>>, removed |-> 0, cmd |-> NoCmd, results |-> <<>>, step |-> 0,
     status |-> ""]

\* The five viper.Set calls of SaveConfig
SetConfig(v, config) ==
    Set(Set(Set(Set(Set(v, "pins", config.Pins),
                    "default.packages", config.DefaultPackages),
                "channel.url", config.ChannelURL),
            "shell.format", config.ShellFormat),
        "config_version", config.Version)

\* A settings operation returns.
Return(g, result) ==
    /\ ret' = [ret EXCEPT ![g] = result]
    /\ pc' = [pc EXCEPT ![g] = "ret"]

\* configFile := viper.ConfigFileUsed();
\* if configFile != "" && FileExists(configFile) { BackupFile(configFile) },
\* then on to viper.WriteConfig()
BackupConfig(g, v) ==
    IF ConfigFileUsed(v) # NoPath /\ FileExists(ConfigFileUsed(v))
    THEN BackupFile(g, ConfigFileUsed(v))
    ELSE /\ pc' = [pc EXCEPT ![g] = "write"]
         /\ UNCHANGED <<cf, fileLocks, want>>

\* SaveConfig(config): the nil check and the viper.Set calls
SaveConfig(g, config) ==
    /\ At(g, "idle")
    /\ call' = [call EXCEPT ![g] = [op |-> "SaveConfig", path |-> configFile,
                                    dst |-> NoPath]]
    /\ pre' = [pre EXCEPT ![g] = fs[FileOf(configFile)]]
    /\ loc' = [loc EXCEPT ![g].config = config]
    /\ IF Len(config) = 0
       THEN /\ Return(g, "err")
            /\ UNCHANGED viper
       ELSE /\ viper' = SetConfig(viper, config[1])
            /\ pc' = [pc EXCEPT ![g] = "sc_validate"]
            /\ UNCHANGED ret
    /\ UNCHANGED <<fs, now, fileLocks, locked, held, user, want, tmp, cf, open, bk, rd,
                   faults>>

\* A bug: the result of ValidateConfig() is logged and SaveConfig goes on.
SC_ValidateIgnored(g) ==
    /\ At(g, "sc_validate")
    /\ BackupConfig(g, viper)
    /\ UNCHANGED <<fs, now, locked, held, call, user, tmp, open, bk, ret, rd, pre, faults,
                   viper, loc>>

\* SaveConfig: if errors := ValidateConfig(); len(errors) > 0 { return err },
\* then the backup of the settings file
SC_Validate(g) ==
    /\ At(g, "sc_validate")
    /\ IF Len(ValidateConfig(viper)) > 0
       THEN /\ Return(g, "err")
            /\ UNCHANGED <<cf, fileLocks, want>>
       ELSE /\ BackupConfig(g, viper)
            /\ UNCHANGED ret
    /\ UNCHANGED <<fs, now, locked, held, call, user, tmp, open, bk, rd, pre, faults,
                   viper, loc>>

\* viper.WriteConfig() has failed: config set and config reset give up,
\* SaveConfig and MigrateConfig go on to viper.SafeWriteConfig().
WriteFailed(g) ==
    IF call[g].op \in {"configSet", "configReset"}
    THEN Return(g, "err")
    ELSE /\ pc' = [pc EXCEPT ![g] = "safe_write"]
         /\ UNCHANGED ret

\* What a failed write leaves of the file it had opened: the file as it was,
\* or an empty file.
Truncated == {fs, [fs EXCEPT ![FileOf(configFile)] = File(NoLayer)]}

\* viper.WriteConfig(): viper looks for its file unless it knows it, and fails
\* when there is none; else it writes AllSettings() into the file itself.
WriteConfig(g) ==
    /\ At(g, "write")
    /\ \/ /\ ConfigFileUsed(viper) # NoPath \/ FileExists(configFile)
          /\ \E document \in AllSettings(viper) :
                fs' = [fs EXCEPT ![FileOf(configFile)] = File(document)]
          /\ viper' = [viper EXCEPT !.configFile = configFile]
          /\ Return(g, "ok")
          /\ UNCHANGED faults
       \/ /\ ConfigFileUsed(viper) # NoPath \/ FileExists(configFile)
          /\ CanFail
          /\ faults' = faults + 1
          /\ fs' \in Truncated
          /\ viper' = [viper EXCEPT !.configFile = configFile]
          /\ WriteFailed(g)
       \/ /\ ConfigFileUsed(viper) = NoPath /\ ~FileExists(configFile)
          /\ WriteFailed(g)
          /\ UNCHANGED <<fs, viper, faults>>
    /\ UNCHANGED <<now, fileLocks, locked, held, call, user, want, tmp, cf, open, bk, rd,
                   pre, loc>>

\* viper.SafeWriteConfig(): fails when the file exists, else creates it.
SafeWriteConfig(g) ==
    /\ At(g, "safe_write")
    /\ \/ /\ Exists(configFile)
          /\ Return(g, "err")
          /\ UNCHANGED <<fs, faults>>
       \/ /\ ~Exists(configFile)
          /\ \E document \in AllSettings(viper) :
                fs' = [fs EXCEPT ![FileOf(configFile)] = File(document)]
          /\ Return(g, "ok")
          /\ UNCHANGED faults
       \/ /\ ~Exists(configFile)
          /\ CanFail
          /\ faults' = faults + 1
          /\ fs' \in Truncated
          /\ Return(g, "err")
    /\ UNCHANGED <<now, fileLocks, locked, held, call, user, want, tmp, cf, open, bk, rd,
                   pre, viper, loc>>

\* MigrateConfig(), the settings in memory: each step that applies sets
\* needsSave.
Migrated(v) ==
    LET v1 == IF ~IsSet(v, "config_version") THEN Set(v, "config_version", v1_0_0) ELSE v
        v2 == IF ~IsSet(v1, "default.packages") THEN Set(v1, "default.packages", <<>>)
              ELSE v1
        v3 == IF ~IsSet(v2, "shell.format") THEN Set(v2, "shell.format", shell_nix)
              ELSE v2
        v4 == IF ~IsSet(v3, "pins") THEN Set(v3, "pins", <<>>) ELSE v3
        oldChannel == GetString(v4, "channel")
        moves == IsSet(v4, "channel") /\ ~IsSet(v4, "channel.url") /\ Len(oldChannel) > 0
        v5 == IF moves THEN SetNil(Set(v4, "channel.url", oldChannel), "channel") ELSE v4
        upgrades == GetString(v5, "config_version") = v1_0_0
        v6 == IF upgrades THEN Set(v5, "config_version", v1_1_0) ELSE v5
    IN  [viper |-> v6,
         needsSave |-> \/ ~IsSet(v, "config_version")
                       \/ ~IsSet(v1, "default.packages")
                       \/ ~IsSet(v2, "shell.format")
                       \/ ~IsSet(v3, "pins")
                       \/ moves
                       \/ upgrades]

\* MigrateConfig(): the settings in memory, then, if needsSave, the backup
MigrateConfig(g) ==
    /\ At(g, "idle")
    /\ call' = [call EXCEPT ![g] = [op |-> "MigrateConfig", path |-> configFile,
                                    dst |-> NoPath]]
    /\ pre' = [pre EXCEPT ![g] = fs[FileOf(configFile)]]
    /\ viper' = Migrated(viper).viper
    /\ loc' = [loc EXCEPT ![g].needsSave = Migrated(viper).needsSave]
    /\ IF Migrated(viper).needsSave
       THEN /\ BackupConfig(g, Migrated(viper).viper)
            /\ UNCHANGED ret
       ELSE /\ Return(g, "ok")
            /\ UNCHANGED <<cf, fileLocks, want>>
    /\ UNCHANGED <<fs, now, locked, held, user, tmp, open, bk, rd, faults>>

\* nsm config set key value: the checks of the key, oldValue := viper.Get(key)
\* and viper.Set(key, value)
configSet(g, key, value) ==
    /\ At(g, "idle")
    /\ call' = [call EXCEPT ![g] = [op |-> "configSet", path |-> configFile,
                                    dst |-> NoPath]]
    /\ pre' = [pre EXCEPT ![g] = fs[FileOf(configFile)]]
    /\ IF \/ key = "shell.format" /\ value # shell_nix /\ value # flake_nix
          \/ key = "default.packages"
       THEN /\ Return(g, "err")
            /\ UNCHANGED <<viper, loc>>
       ELSE /\ loc' = [loc EXCEPT ![g].key = key, ![g].value = value,
                                  ![g].oldValue = Find(viper, key)]
            /\ viper' = Set(viper, key, value)
            /\ pc' = [pc EXCEPT ![g] = "set_validate"]
            /\ UNCHANGED ret
    /\ UNCHANGED <<fs, now, fileLocks, locked, held, user, want, tmp, cf, open, bk, rd,
                   faults>>

\* config set: ValidateConfig(); when it finds errors the old value is set
\* again, if there was one, and the command returns.
CS_Validate(g) ==
    /\ At(g, "set_validate")
    /\ IF Len(ValidateConfig(viper)) > 0
       THEN /\ viper' = IF Len(loc[g].oldValue) > 0
                        THEN Set(viper, loc[g].key, loc[g].oldValue[1])
                        ELSE viper
            /\ Return(g, "err")
       ELSE /\ pc' = [pc EXCEPT ![g] = "write"]
            /\ UNCHANGED <<viper, ret>>
    /\ UNCHANGED <<fs, now, fileLocks, locked, held, call, user, want, tmp, cf, open, bk,
                   rd, pre, faults, loc>>

\* nsm config reset: the backup of the settings file
configReset(g) ==
    /\ At(g, "idle")
    /\ call' = [call EXCEPT ![g] = [op |-> "configReset", path |-> configFile,
                                    dst |-> NoPath]]
    /\ pre' = [pre EXCEPT ![g] = fs[FileOf(configFile)]]
    /\ IF ConfigFileUsed(viper) # NoPath /\ FileExists(ConfigFileUsed(viper))
       THEN BackupFile(g, ConfigFileUsed(viper))
       ELSE /\ pc' = [pc EXCEPT ![g] = "reset_set"]
            /\ UNCHANGED <<cf, fileLocks, want>>
    /\ UNCHANGED <<fs, now, locked, held, user, tmp, open, bk, ret, rd, faults, viper,
                   loc>>

\* config reset: the four viper.Set calls of the default values, then on to
\* viper.WriteConfig()
CR_Set(g) ==
    /\ At(g, "reset_set")
    /\ viper' = Set(Set(Set(Set(viper, "channel.url", nixos_unstable),
                            "shell.format", shell_nix),
                        "default.packages", <<>>),
                    "config_version", v1_0_0)
    /\ pc' = [pc EXCEPT ![g] = "write"]
    /\ UNCHANGED <<fs, now, fileLocks, locked, held, call, user, want, tmp, cf, open, bk,
                   ret, rd, pre, faults, loc>>

\* ------------------------------------------------------- the file store
\* Nothing runs yet: no lock exists, no backup has been taken.
Idle ==
    /\ now = 1
    /\ fileLocks = {}
    /\ locked = [k \in LockKeys |-> FALSE]
    /\ held = [g \in Procs |-> {}]
    /\ pc = [g \in Procs |-> "idle"]
    /\ call = [g \in Procs |-> NoCall]
    /\ user = [g \in Procs |-> NoPath]
    /\ want = [g \in Procs |-> NoPath]
    /\ tmp = [g \in Procs |-> NoFile]
    /\ cf = [g \in Procs |-> NoFrame]
    /\ open = [g \in Procs |-> NoFile]
    /\ bk = [g \in Procs |-> "none"]
    /\ ret = [g \in Procs |-> "none"]
    /\ rd = [g \in Procs |-> NoFile]
    /\ pre = [g \in Procs |-> NoFile]
    /\ loc = [g \in Procs |-> NoLocals]

\* "a" is a complete file or does not exist, "b" is a directory or does not
\* exist (CopyFile makes it a file).
FSInit ==
    /\ Idle
    /\ \E a \in {NoFile, File(InitialData)}, b \in {NoFile, Dir} :
        fs = [f \in Files |-> IF f = A THEN a ELSE IF f = B THEN b ELSE NoFile]
    /\ faults = 0
    /\ viper = NoSettings

\* Goroutines call SafeWrite and SafeRead on "a", copy "a" to "b" and remove
\* "b", while I/O calls may fail.
FSNext ==
    \/ Tick
    \/ \E g \in Procs :
        \/ MutexLock(g)
        \/ SafeWrite(g, A)
        \/ SW_Backup(g)
        \/ SW_Rename(g)
        \/ CopyFile(g, A, B)
        \/ CF_LockDst(g)
        \/ CF_Copy(g)
        \/ CF_Rename(g)
        \/ SafeRead(g, A)
        \/ SR_Open(g)
        \/ SR_Read(g)
        \/ RemovePath(g, B)
        \/ RP_Stat(g)
        \/ RP_Remove(g)

Spec == FSInit /\ [][FSNext]_vars

\* Goroutines take the lock of a path themselves (TestFileLock) and call
\* SafeWrite and SafeRead, holding it or not; no I/O call fails.
LockInit ==
    /\ Idle
    /\ \E a \in {NoFile, File(InitialData)}, b \in {NoFile, File(InitialData)} :
        fs = [f \in Files |-> IF f = A THEN a ELSE IF f = B THEN b ELSE NoFile]
    /\ faults = MaxFaults
    /\ viper = NoSettings

LockNext ==
    \E g \in Procs :
        \/ \E path \in {A, DotA, B} : AcquireLock(g, path)
        \/ UserRelease(g)
        \/ MutexLock(g)
        \/ \E path \in {A, B} : SafeWrite(g, path)
        \/ SW_Backup(g)
        \/ SW_Rename(g)
        \/ CF_LockDst(g)
        \/ CF_Copy(g)
        \/ CF_Rename(g)
        \/ SafeRead(g, B)
        \/ SR_Open(g)
        \/ SR_Read(g)

SpecLock == LockInit /\ [][LockNext]_vars

\* Goroutines take and release the locks of paths in every spelling.
RegistryNext ==
    \E g \in Procs :
        \/ \E path \in {A, DotA, AbsA, B} : AcquireLock(g, path)
        \/ MutexLock(g)
        \/ UserRelease(g)

SpecRegistry == LockInit /\ [][RegistryNext]_vars

\* TestSafeWrite: every goroutine calls SafeWrite on the same existing file,
\* no I/O call fails, and the scheduler lets every goroutine run.
WritersInit ==
    /\ Idle
    /\ fs = [f \in Files |-> IF f = A THEN File(InitialData) ELSE NoFile]
    /\ faults = MaxFaults
    /\ viper = NoSettings

WritersNext ==
    \/ Tick
    \/ \E g \in Procs :
        \/ SafeWrite(g, A)
        \/ SW_Backup(g)
        \/ MutexLock(g)
        \/ CF_LockDst(g)
        \/ CF_Copy(g)
        \/ CF_Rename(g)
        \/ SW_Rename(g)

SpecWriters == WritersInit /\ [][WritersNext]_vars /\ WF_vars(WritersNext)

\* ------------------------------------------------------ the settings store
\* Settings documents a settings file may hold.
CurrentDocument ==
    [k \in TopKeys |->
        CASE k = "channel" -> Nested(nixos_unstable)
          [] k = "shell.format" -> Val(shell_nix)
          [] k = "default.packages" -> Val(<<gcc>>)
          [] k = "config_version" -> Val(v1_1_0)
          [] k = "pins" -> Val(<<<<gcc, v12_3_0>>>>)]
OldDocument == [CurrentDocument EXCEPT !["config_version"] = Val(v1_0_0)]
FutureDocument == [CurrentDocument EXCEPT !["config_version"] = Val(v2_0_0)]
LegacyDocument == [NoLayer EXCEPT !["channel"] = Flat(nixos_unstable)]
\* A document of a later schema, which has no pins.
FuturePartial == [FutureDocument EXCEPT !["pins"] = NoVal]

\* The viper.SetDefault calls of setupConfig.
Defaults ==
    [k \in TopKeys |->
        CASE k = "channel" -> Nested(nixos_unstable)
          [] k = "shell.format" -> Val(shell_nix)
          [] k = "default.packages" -> Val(<<>>)
          [] k = "config_version" -> Val(v1_0_0)
          [] k = "pins" -> NoVal]

\* setupConfig, before it calls MigrateConfig: the defaults (set by the nsm
\* command, not by a program that only uses the package), then ReadInConfig.
setupConfig(file, defaults) == ReadInConfig([NoSettings EXCEPT !.defaults = defaults], file)

SettingsInit(files, defaults) ==
    /\ Idle
    /\ \E file \in files, d \in defaults :
        /\ fs = [f \in Files |-> IF f = configFile THEN file ELSE NoFile]
        /\ viper = setupConfig(file, d)

SettingsFiles == {File(d) : d \in {LegacyDocument, OldDocument, CurrentDocument,
                                   FutureDocument, FuturePartial}}

\* Goroutines call SaveConfig, MigrateConfig and config set at the same time,
\* and I/O calls may fail.
ConcurrentInit ==
    /\ SettingsInit({NoFile, File(OldDocument)}, {Defaults})
    /\ faults = 0

ConcurrentNext ==
    \E g \in Procs :
        \/ \E config \in {Val(ValidConfig), Val(PinsOnly)} : SaveConfig(g, config)
        \/ SC_Validate(g)
        \/ MigrateConfig(g)
        \/ \E args \in SetArgs : configSet(g, args[1], args[2])
        \/ CS_Validate(g)
        \/ MutexLock(g)
        \/ CF_LockDst(g)
        \/ CF_Copy(g)
        \/ CF_Rename(g)
        \/ WriteConfig(g)
        \/ SafeWriteConfig(g)

SpecConcurrent == ConcurrentInit /\ [][ConcurrentNext]_vars

\* No other goroutine is inside an operation.
Quiet(g) == \A h \in Procs \ {g} : pc[h] \in {"idle", "ret"}

\* The settings operations are called one after the other, by one goroutine
\* each: a call waits until no other goroutine is inside an operation.  No
\* I/O call fails.
SequentialInit ==
    /\ SettingsInit({NoFile} \cup SettingsFiles, {NoLayer, Defaults})
    /\ faults = MaxFaults

SequentialNext ==
    \E g \in Procs :
        \/ Quiet(g) /\ \E config \in Configs : SaveConfig(g, config)
        \/ SC_Validate(g)
        \/ Quiet(g) /\ MigrateConfig(g)
        \/ Quiet(g) /\ \E args \in SetArgs : configSet(g, args[1], args[2])
        \/ CS_Validate(g)
        \/ Quiet(g) /\ configReset(g)
        \/ CR_Set(g)
        \/ MutexLock(g)
        \/ CF_LockDst(g)
        \/ CF_Copy(g)
        \/ CF_Rename(g)
        \/ WriteConfig(g)
        \/ SafeWriteConfig(g)

SpecSequential == SequentialInit /\ [][SequentialNext]_vars

\* ---------------------------------------------------------- validation
\* TestConfigValidation: viper.Reset(), viper.Set(k, v) for the keys of a
\* document, then ValidateConfig().
v_1_0_0 == <<"v">> \o v1_0_0
plus1_0_0 == <<"+", "1", ".", "0", ".", "0">>
one_0 == <<"1", ".", "0">>
TestKeys == {"channel.url", "shell.format", "default.packages", "config_version", "pins"}
TestValues(key) ==
    CASE key = "channel.url" -> {<<>>, nixos_unstable, stable}
      [] key = "shell.format" -> {shell_nix, stable}
      [] key = "default.packages" -> {<<>>, <<gcc>>, <<g_cc>>, <<g_cc, <<>>>>}
      [] key = "config_version" -> {v1_0_0, v_1_0_0, stable, one_0, minus1_0_0, plus1_0_0}
      [] key = "pins" -> {<<>>, <<<<gcc, v12_3_0>>>>, <<<<g_cc, stable>>>>,
                          <<<<gcc, one_0>>, <<g_cc, v1_1_0>>>>}

\* The key of viper a test key is stored under, in the override layer.
TopKey(key) == IF key = "channel.url" THEN "channel" ELSE key

\* for k, v := range tt.config { viper.Set(k, v) }: each key once
TestSet(key, value) ==
    /\ \A g \in Procs : pc[g] = "idle"
    /\ viper.override[TopKey(key)] = NoVal
    /\ viper' = Set(viper, key, value)
    /\ UNCHANGED <<fs, now, fileLocks, locked, held, pc, call, user, want, tmp, cf, open,
                   bk, ret, rd, pre, faults, loc>>

\* errors := ValidateConfig()
Validate(g) ==
    /\ At(g, "idle")
    /\ call' = [call EXCEPT ![g] = [op |-> "ValidateConfig", path |-> NoPath,
                                    dst |-> NoPath]]
    /\ loc' = [loc EXCEPT ![g].errors = ValidateConfig(viper)]
    /\ Return(g, IF Len(ValidateConfig(viper)) = 0 THEN "ok" ELSE "err")
    /\ UNCHANGED <<fs, now, fileLocks, locked, held, user, want, tmp, cf, open, bk, rd,
                   pre, faults, viper>>

ValidationInit ==
    /\ Idle
    /\ fs = [f \in Files |-> NoFile]
    /\ viper = NoSettings
    /\ faults = MaxFaults

ValidationNext ==
    \/ \E key \in TestKeys : \E value \in TestValues(key) : TestSet(key, value)
    \/ \E g \in Procs : Validate(g)

SpecValidation == ValidationInit /\ [][ValidationNext]_vars

\* ------------------------------------------------------- save and load
\* viper.SetDefault(key, value)
SetDefault(v, key, value) ==
    IF key = "channel.url"
    THEN [v EXCEPT !.defaults["channel"] = Nested(value)]
    ELSE [v EXCEPT !.defaults[key] = Val(value)]

\* viper.Unmarshal(&config): the fields are decoded from the map AllSettings()
\* returns, each from the top-level key that equals its mapstructure tag.  In
\* that map "channel.url", "shell.format" and "default.packages" are maps
\* inside maps (channel: {url: ...}), not top-level keys, so the three fields
\* with these tags keep their zero values.
Unmarshal(v) ==
    [Pins |-> GetStringMapString(v, "pins"), DefaultPackages |-> <<>>,
     ChannelURL |-> <<>>, ShellFormat |-> <<>>,
     Version |-> GetString(v, "config_version")]

\* LoadConfig(): the defaults, then Unmarshal
LoadConfig(g) ==
    /\ At(g, "idle")
    /\ call' = [call EXCEPT ![g] = [op |-> "LoadConfig", path |-> configFile,
                                    dst |-> NoPath]]
    /\ pre' = [pre EXCEPT ![g] = fs[FileOf(configFile)]]
    /\ viper' = SetDefault(SetDefault(SetDefault(SetDefault(viper,
                        "channel.url", nixos_unstable),
                        "shell.format", shell_nix),
                        "default.packages", <<>>),
                        "config_version", v1_0_0)
    /\ loc' = [loc EXCEPT ![g].config = Val(Unmarshal(viper'))]
    /\ Return(g, "ok")
    /\ UNCHANGED <<fs, now, fileLocks, locked, held, user, want, tmp, cf, open, bk, rd,
                   faults>>

\* setupTestConfig: viper.Reset(), the viper.Set calls, viper.SafeWriteConfig()
TestConfig ==
    [Pins |-> <<<<gcc, v12_3_0>>>>, DefaultPackages |-> <<gcc>>,
     ChannelURL |-> nixos_unstable, ShellFormat |-> shell_nix, Version |-> v1_0_0]

\* The tests' setup, or the program's (setupConfig).
SaveLoadInit ==
    /\ \/ /\ Idle
          /\ viper = SetConfig(NoSettings, TestConfig)
          /\ \E document \in AllSettings(viper) :
                fs = [f \in Files |-> IF f = configFile THEN File(document) ELSE NoFile]
       \/ SettingsInit({NoFile} \cup SettingsFiles, {NoLayer, Defaults})
    /\ faults = MaxFaults

\* The configs the tests save: one with only pins, a whole one, and one that
\* LoadConfig returned with the channel changed (TestConfigIO).
Loaded == {loc[g].config[1] : g \in {h \in Procs : call[h].op = "LoadConfig"}}
Saved ==
    {Val(PinsOnly), Val(ValidConfig)}
        \cup {Val([c EXCEPT !.ChannelURL = nixpkgs_unstable]) : c \in Loaded}

SaveLoadNext ==
    \E g \in Procs :
        \/ Quiet(g) /\ \E config \in Saved : SaveConfig(g, config)
        \/ SC_Validate(g)
        \/ Quiet(g) /\ LoadConfig(g)
        \/ MutexLock(g)
        \/ CF_LockDst(g)
        \/ CF_Copy(g)
        \/ CF_Rename(g)
        \/ WriteConfig(g)
        \/ SafeWriteConfig(g)

SpecSaveLoad == SaveLoadInit /\ [][SaveLoadNext]_vars

\* --------------------------------------------------------- descriptors
\* The text of an environment descriptor is a sequence of characters.
python3 == <<"p", "y", "t", "h", "o", "n", "3">>
go == <<"g", "o">>
golang == <<"g", "o", "l", "a", "n", "g">>

\* unicode.IsSpace for the characters of a descriptor; \s of regexp
Space == {" ", "\t", "\n", "\r"}

Least(S) == CHOOSE i \in S : \A j \in S : i <= j
Greatest(S) == CHOOSE i \in S : \A j \in S : j <= i

\* the places where substr begins in s
Occurs(s, substr) ==
    {i \in 1..(Len(s) - Len(substr) + 1) : SubSeq(s, i, i + Len(substr) - 1) = substr}

\* strings.Index(s, substr), counted from 1; 0 when substr is not in s
IndexOf(s, substr) ==
    LET at == Occurs(s, substr) IN IF at = {} THEN 0 ELSE Least(at)

\* strings.Contains(s, substr)
Contains(s, substr) == Occurs(s, substr) # {}

\* strings.TrimSuffix(s, suffix)
TrimSuffix(s, suffix) ==
    IF Len(s) >= Len(suffix) /\ SubSeq(s, Len(s) - Len(suffix) + 1, Len(s)) = suffix
    THEN SubSeq(s, 1, Len(s) - Len(suffix))
    ELSE s

\* strings.TrimSpace(s)
TrimSpace(s) ==
    LET ink == {i \in 1..Len(s) : s[i] \notin Space}
    IN  IF ink = {} THEN <<>> ELSE SubSeq(s, Least(ink), Greatest(ink))

\* strings.Fields(s)
RECURSIVE Fields(_)
Fields(s) ==
    LET ink == {i \in 1..Len(s) : s[i] \notin Space}
    IN  IF ink = {} THEN <<>>
        ELSE LET a == Least(ink)
                 after == {i \in a..Len(s) : s[i] \in Space}
                 b == IF after = {} THEN Len(s) + 1 ELSE Least(after)
             IN  <<SubSeq(s, a, b - 1)>> \o Fields(SubSeq(s, b, Len(s)))

\* strings.Join(elems, sep)
RECURSIVE Join(_, _)
Join(elems, sep) ==
    IF Len(elems) = 0 THEN <<>>
    ELSE IF Len(elems) = 1 THEN elems[1]
    ELSE elems[1] \o sep \o Join(Tail(elems), sep)

\* the lines of a text: strings.Split(content, "\n"), bufio.Scanner
Lines(content) == Split(content, "\n")

\* [a-zA-Z0-9_.-]+
IsName(s) == Len(s) > 0 /\ \A i \in 1..Len(s) : s[i] \in validChars

with == <<"w", "i", "t", "h">>
pkgs == <<"p", "k", "g", "s">>

\* ExtractShellNixPackages: the matches of (?m)^\s*([a-zA-Z0-9_.-]+)\s*$ in
\* the whole text are the lines that hold one name and white space only,
\* wherever they stand; "with" and "pkgs" are left out.
RECURSIVE NameLines(_)
NameLines(lines) ==
    IF Len(lines) = 0 THEN <<>>
    ELSE LET name == TrimSpace(lines[1])
         IN  (IF IsName(name) /\ name # with /\ name # pkgs THEN <<name>> ELSE <<>>)
             \o NameLines(Tail(lines))

ShellNixPackages(content) == NameLines(Lines(content))

buildInputs == <<"b", "u", "i", "l", "d", "I", "n", "p", "u", "t", "s">>

\* \s* from position i on: the first position that holds no white space
SkipSpace(s, i) ==
    LET ink == {j \in i..Len(s) : s[j] \notin Space}
    IN  IF ink = {} THEN Len(s) + 1 ELSE Least(ink)

\* the first position from i on that holds the character c; 0 if there is none
Next1(s, i, c) ==
    LET at == {j \in i..Len(s) : s[j] = c}
    IN  IF at = {} THEN 0 ELSE Least(at)

\* buildInputs\s*=\s*(?:with[^;]*;)?\s*\[ matched from position i on: the
\* position of the opening bracket, 0 when there is no match at i
OpenBracket(s, i) ==
    LET eq == SkipSpace(s, i + Len(buildInputs))
        val == SkipSpace(s, eq + 1)
        semi == Next1(s, val + Len(with), ";")
        list == IF SubSeq(s, val, val + Len(with) - 1) = with /\ semi # 0
                THEN SkipSpace(s, semi + 1)
                ELSE val
    IN  IF eq <= Len(s) /\ s[eq] = "=" /\ list <= Len(s) /\ s[list] = "["
        THEN list ELSE 0

\* \[\s*([^\]]+)\s*\] from the opening bracket on: the text up to the next
\* closing bracket, which must not be empty.  (The group leaves out the white
\* space at its front, which the caller trims anyway.)
Section(s, bracket) ==
    LET close == Next1(s, bracket + 1, "]")
    IN  IF close > bracket + 1 THEN <<SubSeq(s, bracket + 1, close - 1)>> ELSE <<>>

\* re.FindStringSubmatch(content): the leftmost match, <<>> if there is none
FlakeSection(content) ==
    LET at == {i \in Occurs(content, buildInputs) :
                  OpenBracket(content, i) # 0
                  /\ Section(content, OpenBracket(content, i)) # <<>>}
    IN  IF at = {} THEN <<>> ELSE Section(content, OpenBracket(content, Least(at)))

\* ExtractFlakePackages, the scanner loop: of every line of the section that
\* is not blank and no comment, the first field without a ";" at its end
RECURSIVE FirstFields(_)
FirstFields(lines) ==
    IF Len(lines) = 0 THEN <<>>
    ELSE LET line == TrimSpace(lines[1])
             pkg == TrimSuffix(Fields(line)[1], <<";">>)
         IN  (IF line = <<>> \/ HasPrefix(line, <<"#">>) \/ pkg = <<>>
              THEN <<>> ELSE <<pkg>>) \o FirstFields(Tail(lines))

\* ExtractFlakePackages: "ok" and the packages, or "err" (no packages found)
FlakePackages(content) ==
    IF FlakeSection(content) = <<>> THEN <<>>
    ELSE FirstFields(Lines(FlakeSection(content)[1]))

\* The lines of the descriptors: of the shell.nix and the flake.nix that
\* CreateTestConfig and the templates write, and of a shell hook.
mkShell == <<"p", "k", "g", "s", ".", "m", "k", "S", "h", "e", "l", "l", " ", "{">>
packagesWith ==
    <<" ", " ", "p", "a", "c", "k", "a", "g", "e", "s", " ", "=", " ", "w", "i", "t",
      "h", " ", "p", "k", "g", "s", ";", " ", "[">>
shellClose == <<" ", " ", "]", ";">>
brace == <<"}">>
shellHook ==
    <<" ", " ", "s", "h", "e", "l", "l", "H", "o", "o", "k", " ", "=", " ", "'", "'">>
gccVersion ==
    <<" ", " ", " ", " ", "g", "c", "c", " ", "-", "-", "v", "e", "r", "s", "i", "o",
      "n">>
hookClose == <<" ", " ", "'", "'", ";">>
devShell ==
    <<" ", " ", " ", " ", "d", "e", "v", "S", "h", "e", "l", "l", ".", "x", "8", "6",
      "_", "6", "4", "-", "l", "i", "n", "u", "x", " ", "=", " ", "n", "i", "x", "p",
      "k", "g", "s", ".", "m", "k", "S", "h", "e", "l", "l", " ", "{">>
bareOpen ==
    <<" ", " ", " ", " ", " ", " ", "b", "u", "i", "l", "d", "I", "n", "p", "u", "t",
      "s", " ", "=", " ", "[">>
withOpen ==
    <<" ", " ", " ", " ", " ", " ", "b", "u", "i", "l", "d", "I", "n", "p", "u", "t",
      "s", " ", "=", " ", "w", "i", "t", "h", " ", "p", "k", "g", "s", ";", " ", "[">>
flakeClose == <<" ", " ", " ", " ", " ", " ", "]", ";">>
inlineOpen ==
    <<" ", " ", " ", " ", " ", " ", "b", "u", "i", "l", "d", "I", "n", "p", "u", "t",
      "s", " ", "=", " ", "[", " ">>
inlineClose == <<" ", "]", ";">>
devShellClose == <<" ", " ", " ", " ", "}", ";">>
indent == <<" ", " ", " ", " ">>
comment == <<" ", " ", " ", " ", "#", " ", "g", "c", "c">>

\* A line of a package list: its text and the packages it lists.
Entry(text, tokens) == [text |-> text, tokens |-> tokens]

Entries ==
    {Entry(indent \o gcc, <<gcc>>),
     Entry(indent \o golang \o <<" ">> \o python3, <<golang, python3>>),
     Entry(<<>>, <<>>),
     Entry(comment, <<>>)}

\* The package lists of up to MaxLines lines.
Bodies == UNION {[1..n -> Entries] : n \in 0..MaxLines}

RECURSIVE Listed(_)
Listed(body) ==
    IF Len(body) = 0 THEN <<>> ELSE body[1].tokens \o Listed(Tail(body))

Texts(body) == [i \in 1..Len(body) |-> body[i].text]

\* What follows the package list: nothing, or a shell hook.
Hooks == {<<>>, <<shellHook, gccVersion, hookClose>>}

\* A descriptor: the file, the lines before the package list, the list and the
\* lines after it.  form "inline" is the list of the flake.nix that `nsm
\* convert` and CreateTestConfig write: one line, buildInputs = [ a b ];
Descriptor(path, form, before, body, close, hook, end) ==
    [path |-> path, form |-> form, open |-> before, body |-> body, close |-> close,
     after |-> hook \o <<end>>]

Descriptors ==
    {Descriptor(shellNix, "lines", <<mkShell, packagesWith>>, body, shellClose, hook, brace) :
        body \in Bodies, hook \in Hooks}
    \cup {Descriptor(flakeNix, "lines", <<devShell, first>>, body, flakeClose, hook,
                     devShellClose) :
            first \in {bareOpen, withOpen}, body \in Bodies, hook \in Hooks}
    \cup {Descriptor(flakeNix, "inline", <<devShell, inlineOpen>>, body, inlineClose, hook,
                     devShellClose) :
            body \in {b \in Bodies : \A i \in 1..Len(b) : b[i].tokens # <<>>},
            hook \in Hooks}

\* The lines of the package list as they stand in the file.
ListLines(d) ==
    IF d.form = "inline"
    THEN <<d.open[Len(d.open)] \o Join(Listed(d.body), <<" ">>) \o d.close>>
    ELSE <<d.open[Len(d.open)]>> \o Texts(d.body) \o <<d.close>>

\* The text of the file.
Render(d) ==
    Join(SubSeq(d.open, 1, Len(d.open) - 1) \o ListLines(d) \o d.after, <<"\n">>)

\* "];", which closes a list
closing == <<"]", ";">>

\* GetProjectConfigType(): shell.nix if it exists, else flake.nix, else ""
GetProjectConfigType ==
    IF FileExists(shellNix) THEN shellNix
    ELSE IF FileExists(flakeNix) THEN flakeNix
    ELSE NoPath

\* nsm list: GetProjectConfigType, then ExtractShellNixPackages or
\* ExtractFlakePackages, which check FileExists(path) and call ReadFile(path):
\* FileExists again, then SafeRead.
list(g) ==
    /\ At(g, "idle")
    /\ LET configType == GetProjectConfigType
       IN  /\ call' = [call EXCEPT ![g] = [op |-> "list", path |-> configType,
                                           dst |-> NoPath]]
           /\ IF configType = NoPath
              THEN /\ Return(g, "err")
                   /\ UNCHANGED <<fileLocks, want, pre>>
              ELSE /\ pre' = [pre EXCEPT ![g] = fs[FileOf(configType)]]
                   /\ fileLocks' = LoadOrStore(configType)
                   /\ want' = [want EXCEPT ![g] = Clean(configType)]
                   /\ pc' = [pc EXCEPT ![g] = "sr_open"]
                   /\ UNCHANGED ret
    /\ UNCHANGED <<fs, now, locked, held, user, tmp, cf, open, bk, rd, faults, viper,
                   loc>>

\* ExtractShellNixPackages and ExtractFlakePackages on the text ReadFile
\* returned: the packages, or the error "no packages found in flake.nix"
ExtractPackages(g) ==
    /\ At(g, "list_extract")
    /\ LET content == rd[g][1]
       IN  IF call[g].path = shellNix
           THEN /\ loc' = [loc EXCEPT ![g].packages = ShellNixPackages(content)]
                /\ Return(g, "ok")
           ELSE IF FlakeSection(content) = <<>>
           THEN /\ Return(g, "err")
                /\ UNCHANGED loc
           ELSE /\ loc' = [loc EXCEPT ![g].packages = FlakePackages(content)]
                /\ Return(g, "ok")
    /\ UNCHANGED <<fs, now, fileLocks, locked, held, call, user, want, tmp, cf, open, bk,
                   rd, pre, faults, viper>>

\* nsm add <packages>, all of them valid names: GetProjectConfigType, then
\* BackupFile(configType)
add(g, args) ==
    /\ At(g, "idle")
    /\ LET configType == GetProjectConfigType
       IN  /\ call' = [call EXCEPT ![g] = [op |-> "add", path |-> configType,
                                           dst |-> NoPath]]
           /\ IF configType = NoPath
              THEN /\ Return(g, "err")
                   /\ UNCHANGED <<cf, fileLocks, want, pre>>
              ELSE /\ pre' = [pre EXCEPT ![g] = fs[FileOf(configType)]]
                   /\ BackupFile(g, configType)
                   /\ UNCHANGED ret
    /\ loc' = [loc EXCEPT ![g].args = args]
    /\ UNCHANGED <<fs, now, locked, held, user, tmp, open, bk, rd, faults, viper>>

\* newPackages: "    " + pkg + "\n" for each pkg of args
RECURSIVE NewPackages(_)
NewPackages(args) ==
    IF Len(args) = 0 THEN <<>>
    ELSE indent \o args[1] \o <<"\n">> \o NewPackages(Tail(args))

\* os.WriteFile(path, content): the file holds content; or the call fails and
\* leaves the file as it was or empty.
WriteFile(g, path, content) ==
    \/ /\ fs' = [fs EXCEPT ![FileOf(path)] = File(content)]
       /\ Return(g, "ok")
       /\ UNCHANGED faults
    \/ /\ CanFail
       /\ faults' = faults + 1
       /\ fs' \in {fs, [fs EXCEPT ![FileOf(path)] = File(<<>>)]}
       /\ Return(g, "err")

\* nsm add, on the text ReadFile returned: pos := strings.Index(content, "];"),
\* the duplicates by strings.Contains(content[:pos], pkg), then newPackages is
\* put in at pos and the file written.
addPackages(g) ==
    /\ At(g, "add_insert")
    /\ LET content == rd[g][1]
           pos == IndexOf(content, closing)
           currentContent == SubSeq(content, 1, pos - 1)
           duplicates == {i \in 1..Len(loc[g].args) :
                             Contains(currentContent, loc[g].args[i])}
           newContent == currentContent \o NewPackages(loc[g].args)
                            \o SubSeq(content, pos, Len(content))
       IN  IF pos = 0
           THEN /\ Return(g, "err")
                /\ UNCHANGED <<fs, faults>>
           ELSE IF duplicates # {}
           THEN /\ Return(g, "duplicates")
                /\ UNCHANGED <<fs, faults>>
           ELSE WriteFile(g, call[g].path, newContent)
    /\ UNCHANGED <<now, fileLocks, locked, held, call, user, want, tmp, cf, open, bk, rd,
                   pre, viper, loc>>

\* removePackagesFromShellNix and removePackagesFromFlake, the loop over the
\* lines: the lines kept and the number of lines left out.  A line that holds
\* the marker opens the list, a later line that holds "];" closes it.
RECURSIVE RemoveLines(_, _, _, _)
RemoveLines(lines, toRemove, marker, inPackages) ==
    IF Len(lines) = 0 THEN [lines |-> <<>>, removed |-> 0]
    ELSE LET line == lines[1]
             trimmed == TrimSpace(line)
             opens == Contains(trimmed, marker)
             closes == ~opens /\ inPackages /\ Contains(trimmed, closing)
             pkgName == Fields(trimmed)
             drop == /\ ~opens /\ ~closes /\ inPackages
                     /\ Len(pkgName) > 0 /\ pkgName[1] \in toRemove
             rest == RemoveLines(Tail(lines), toRemove, marker,
                                 opens \/ (inPackages /\ ~closes))
         IN  IF drop
             THEN [lines |-> rest.lines, removed |-> rest.removed + 1]
             ELSE [lines |-> <<line>> \o rest.lines, removed |-> rest.removed]

packagesWithPkgs == TrimSpace(packagesWith)

removePackagesFromShellNix(content, toRemove) ==
    LET result == RemoveLines(Lines(content), toRemove, packagesWithPkgs, FALSE)
    IN  [content |-> Join(result.lines, <<"\n">>), removed |-> result.removed]

removePackagesFromFlake(content, toRemove) ==
    LET result == RemoveLines(Lines(content), toRemove, buildInputs, FALSE)
    IN  [content |-> Join(result.lines, <<"\n">>), removed |-> result.removed]

\* nsm remove <packages>: os.ReadFile(configType), the new content, and if
\* a package was removed BackupFile(configType)
remove(g, args) ==
    /\ At(g, "idle")
    /\ LET configType == GetProjectConfigType
           toRemove == {args[i] : i \in 1..Len(args)}
           content == fs[FileOf(configType)][1]
           result == IF configType = shellNix
                     THEN removePackagesFromShellNix(content, toRemove)
                     ELSE removePackagesFromFlake(content, toRemove)
       IN  /\ call' = [call EXCEPT ![g] = [op |-> "remove", path |-> configType,
                                           dst |-> NoPath]]
           /\ IF configType = NoPath
              THEN /\ Return(g, "err")
                   /\ loc' = [loc EXCEPT ![g].args = args]
                   /\ UNCHANGED <<cf, fileLocks, want, pre>>
              ELSE /\ pre' = [pre EXCEPT ![g] = fs[FileOf(configType)]]
                   /\ loc' = [loc EXCEPT ![g].args = args,
                                         ![g].content = result.content,
                                         ![g].removed = result.removed]
                   /\ IF result.removed = 0
                      THEN /\ Return(g, "ok")
                           /\ UNCHANGED <<cf, fileLocks, want>>
                      ELSE /\ BackupFile(g, configType)
                           /\ UNCHANGED ret
    /\ UNCHANGED <<fs, now, locked, held, user, tmp, open, bk, rd, faults, viper>>

\* nsm remove: os.WriteFile(configType, newContent)
removeWrite(g) ==
    /\ At(g, "remove_write")
    /\ WriteFile(g, call[g].path, loc[g].content)
    /\ UNCHANGED <<now, fileLocks, locked, held, call, user, want, tmp, cf, open, bk, rd,
                   pre, viper, loc>>

\* One descriptor lies in the project directory; nsm list, nsm add and nsm
\* remove are called one after the other.  No I/O call fails.
AddArgs == {<<gcc>>, <<go>>, <<gcc, python3>>}
RemoveArgs == {<<gcc>>, <<python3>>, <<golang, gcc>>}

DescriptorInit ==
    /\ Idle
    /\ \E d \in Descriptors :
        fs = [f \in Files |-> IF f = d.path THEN File(Render(d)) ELSE NoFile]
    /\ faults = MaxFaults
    /\ viper = NoSettings

DescriptorNext ==
    \E g \in Procs :
        \/ Quiet(g) /\ list(g)
        \/ ExtractPackages(g)
        \/ Quiet(g) /\ \E args \in AddArgs : add(g, args)
        \/ addPackages(g)
        \/ Quiet(g) /\ \E args \in RemoveArgs : remove(g, args)
        \/ removeWrite(g)
        \/ MutexLock(g)
        \/ SR_Open(g)
        \/ SR_Read(g)
        \/ CF_LockDst(g)
        \/ CF_Copy(g)
        \/ CF_Rename(g)

SpecDescriptor == DescriptorInit /\ [][DescriptorNext]_vars

\* ------------------------------------------------------------- toolchain
\* The commands that go through NixCommand.Run by themselves.
RunOps == {"Run", "UpdateChannel", "CollectGarbage"}

\* How an external process ends by itself: with exit status 0, with a
\* connection-shaped error (the network is down), or with another error
\* (invalid arguments).
ExitStatus == {"ok", "transient", "failed"}

\* Where the caller of c.Run() goes on: RunDiagnostics with the check that
\* made the call; a command run by itself returns.
AfterRun(g) == IF call[g].op = "RunDiagnostics" THEN "check" ELSE "ret"

\* c.Run() and ExecuteWithTimeout return (output, err); the deferred cancel()
\* of the context runs.
Returns(g, output, err) ==
    /\ loc' = [loc EXCEPT ![g].cmd.output = output, ![g].cmd.err = err,
                          ![g].cmd.ctx = "canceled"]
    /\ ret' = [ret EXCEPT ![g] = IF err = "nil" THEN "ok" ELSE "err"]
    /\ pc' = [pc EXCEPT ![g] = AfterRun(g)]

\* context.WithTimeout, exec.CommandContext and ExecuteWithTimeout up to its
\* select, in a caller whose local variables are locals: cmd.Start() fails and
\* the error is returned, or the process runs and a goroutine is started that
\* sends cmd.Wait() to done.
Start(g, locals) ==
    \/ /\ loc' = [loc EXCEPT ![g] = [locals EXCEPT !.cmd = [NoCmd EXCEPT !.process = "running",
                                                                        !.ctx = "armed",
                                                                        !.attempts = 1]]]
       /\ pc' = [pc EXCEPT ![g] = "select"]
       /\ UNCHANGED ret
    \/ /\ loc' = [loc EXCEPT ![g] = [locals EXCEPT !.cmd = [NoCmd EXCEPT !.err = "start",
                                                                        !.ctx = "canceled",
                                                                        !.attempts = 1]]]
       /\ ret' = [ret EXCEPT ![g] = "err"]
       /\ pc' = [pc EXCEPT ![g] = AfterRun(g)]

\* c.Run() of a command; UpdateChannel() and CollectGarbage() are c.Run() of
\* nix-channel --update and of nix-collect-garbage -d.
Run(g, op) ==
    /\ At(g, "idle")
    /\ call' = [call EXCEPT ![g] = [op |-> op, path |-> NoPath, dst |-> NoPath]]
    /\ Start(g, loc[g])
    /\ UNCHANGED <<fs, now, fileLocks, locked, held, user, want, tmp, cf, open, bk, rd,
                   pre, faults, viper>>

\* The external process writes to its standard output, the buffer stdout.
ProcessWrites(g) ==
    /\ loc[g].cmd.process = "running"
    /\ loc[g].cmd.stdout = ""
    /\ loc' = [loc EXCEPT ![g].cmd.stdout = "partial"]
    /\ UNCHANGED <<fs, now, fileLocks, locked, held, pc, call, user, want, tmp, cf, open,
                   bk, ret, rd, pre, faults, viper>>

\* The external process ends by itself.
ProcessExits(g, status) ==
    /\ loc[g].cmd.process = "running"
    /\ loc' = [loc EXCEPT ![g].cmd.process = status,
                          ![g].cmd.stdout = IF status = "ok" THEN "whole" ELSE @]
    /\ UNCHANGED <<fs, now, fileLocks, locked, held, pc, call, user, want, tmp, cf, open,
                   bk, ret, rd, pre, faults, viper>>

\* The timeout of the context expires while the call waits: ctx.Done() is
\* closed, and exec.CommandContext kills the process if it has not ended.
Timeout(g) ==
    /\ loc[g].cmd.ctx = "armed"
    /\ loc' = [loc EXCEPT ![g].cmd.ctx = "done",
                          ![g].cmd.process = IF @ = "running" THEN "killed" ELSE @]
    /\ UNCHANGED <<fs, now, fileLocks, locked, held, pc, call, user, want, tmp, cf, open,
                   bk, ret, rd, pre, faults, viper>>

\* go func() { done <- cmd.Wait() }(): the process has ended, its error (nil
\* for exit status 0) is put into the buffered channel.
Wait(g) ==
    /\ loc[g].cmd.process \notin {"none", "running"}
    /\ loc[g].cmd.done = "empty"
    /\ loc' = [loc EXCEPT ![g].cmd.done =
                    IF loc[g].cmd.process = "ok" THEN "nil" ELSE loc[g].cmd.process]
    /\ UNCHANGED <<fs, now, fileLocks, locked, held, pc, call, user, want, tmp, cf, open,
                   bk, ret, rd, pre, faults, viper>>

\* A bug: on a timeout what the process has written so far is returned with
\* the error.
SelectSalvage(g) ==
    /\ At(g, "select")
    /\ \/ /\ loc[g].cmd.ctx = "done"
          /\ Returns(g, loc[g].cmd.stdout, "timeout")
       \/ /\ loc[g].cmd.done \notin {"empty", "nil"}
          /\ Returns(g, "", loc[g].cmd.done)
       \/ /\ loc[g].cmd.done = "nil"
          /\ Returns(g, loc[g].cmd.stdout, "nil")
    /\ UNCHANGED <<fs, now, fileLocks, locked, held, call, user, want, tmp, cf, open, bk,
                   rd, pre, faults, viper>>

\* The select of ExecuteWithTimeout: on ctx.Done() cmd.Process.Kill() and the
\* error "command timed out"; on done the error "command failed", or
\* stdout.Bytes() and nil.  c.Run() returns "" with an error.
Select(g) ==
    /\ At(g, "select")
    /\ \/ /\ loc[g].cmd.ctx = "done"
          /\ Returns(g, "", "timeout")
       \/ /\ loc[g].cmd.done \notin {"empty", "nil"}
          /\ Returns(g, "", loc[g].cmd.done)
       \/ /\ loc[g].cmd.done = "nil"
          /\ Returns(g, loc[g].cmd.stdout, "nil")
    /\ UNCHANGED <<fs, now, fileLocks, locked, held, call, user, want, tmp, cf, open, bk,
                   rd, pre, faults, viper>>

\* UpdateChannel(): c.Run() of nix-channel --update, the error is returned
UpdateChannel(g) == Run(g, "UpdateChannel")

\* CollectGarbage(): c.Run() of nix-collect-garbage -d, the error is returned
CollectGarbage(g) == Run(g, "CollectGarbage")

\* Goroutines run commands of the toolchain; a process ends when it likes, or
\* never.  The timer of a context fires, and a goroutine that can go on does.
ToolchainInit ==
    /\ Idle
    /\ fs = [f \in Files |-> NoFile]
    /\ faults = MaxFaults
    /\ viper = NoSettings

ToolchainNext ==
    \E g \in Procs :
        \/ Run(g, "Run")
        \/ ProcessWrites(g)
        \/ \E status \in {"ok", "failed"} : ProcessExits(g, status)
        \/ Timeout(g)
        \/ Wait(g)
        \/ Select(g)

SpecToolchain ==
    /\ ToolchainInit
    /\ [][ToolchainNext]_vars
    /\ \A g \in Procs : WF_vars(Timeout(g)) /\ WF_vars(Select(g))

\* Goroutines update the channel and collect garbage.
MaintenanceNext ==
    \E g \in Procs :
        \/ UpdateChannel(g)
        \/ CollectGarbage(g)
        \/ ProcessWrites(g)
        \/ \E status \in ExitStatus : ProcessExits(g, status)
        \/ Timeout(g)
        \/ Wait(g)
        \/ Select(g)

SpecMaintenance == ToolchainInit /\ [][MaintenanceNext]_vars

\* ----------------------------------------------------------- diagnostics
\* The checks of RunDiagnostics on a system that is not Windows, by the Name
\* of their results, in the order of the append calls.
Checks ==
    <<"Unix Permissions", "Nix Daemon", "Nix Installation", "Nix Channels",
      "Flakes Support", "NSM Configuration", "Project Files">>

DoctorResult(Name, Status) == [Name |-> Name, Status |-> Status]

\* The check RunDiagnostics is in: the one after the results it has.
Current(g) == Len(loc[g].results) + 1

\* RunDiagnostics is in the check of this name, at its start or back from a
\* call this check made.
Checking(g, name) ==
    /\ At(g, "check")
    /\ call[g].op = "RunDiagnostics"
    /\ Current(g) <= Len(Checks)
    /\ Checks[Current(g)] = name

\* return result, which ends the local variables of the check, and
\* results = append(results, result); after the last append RunDiagnostics
\* returns results.
Result(g, status) ==
    LET results == Append(loc[g].results, DoctorResult(Checks[Current(g)], status))
        last == Len(results) = Len(Checks)
    IN  /\ loc' = [loc EXCEPT ![g].results = results, ![g].step = 0, ![g].status = "",
                              ![g].cmd = NoCmd]
        /\ pc' = [pc EXCEPT ![g] = IF last THEN "ret" ELSE "check"]
        /\ ret' = [ret EXCEPT ![g] = IF last THEN "ok" ELSE "none"]

\* The local variables of a check that makes its next call
NextCall(g) == [loc[g] EXCEPT !.step = @ + 1]

\* exec.Command(...).Output(), first half: the command has no context and no
\* timer; cmd.Start() fails (the program is not installed), or the process
\* runs and Output waits for it.
StartOutput(g, locals) ==
    \/ /\ loc' = [loc EXCEPT ![g] = [locals EXCEPT !.cmd = [NoCmd EXCEPT !.process = "running",
                                                                        !.attempts = 1]]]
       /\ pc' = [pc EXCEPT ![g] = "output"]
       /\ UNCHANGED ret
    \/ /\ loc' = [loc EXCEPT ![g] = [locals EXCEPT !.cmd = [NoCmd EXCEPT !.err = "start",
                                                                        !.attempts = 1]]]
       /\ ret' = [ret EXCEPT ![g] = "err"]
       /\ pc' = [pc EXCEPT ![g] = "check"]

\* exec.Command(...).Output(), second half: cmd.Wait() returns when the
\* process has ended, with what it wrote and with its exit status.
Output(g) ==
    /\ At(g, "output")
    /\ loc[g].cmd.process \notin {"none", "running"}
    /\ loc' = [loc EXCEPT ![g].cmd.output = loc[g].cmd.stdout,
                          ![g].cmd.err = IF loc[g].cmd.process = "ok" THEN "nil"
                                         ELSE loc[g].cmd.process]
    /\ ret' = [ret EXCEPT ![g] = IF loc[g].cmd.process = "ok" THEN "ok" ELSE "err"]
    /\ pc' = [pc EXCEPT ![g] = "check"]
    /\ UNCHANGED <<fs, now, fileLocks, locked, held, call, user, want, tmp, cf, open, bk,
                   rd, pre, faults, viper>>

\* RunDiagnostics starts: var results []DoctorResult
RunDiagnostics(g) ==
    /\ At(g, "idle")
    /\ call' = [call EXCEPT ![g] = [op |-> "RunDiagnostics", path |-> NoPath,
                                    dst |-> NoPath]]
    /\ loc' = [loc EXCEPT ![g] = NoLocals]
    /\ pc' = [pc EXCEPT ![g] = "check"]
    /\ UNCHANGED <<fs, now, fileLocks, locked, held, user, want, tmp, cf, open, bk, ret,
                   rd, pre, faults, viper>>

\* CheckUnixPermissions: /nix, its permissions and /nix/store are as the
\* system has them (ERROR when one is missing), as is the free space (WARNING
\* when it is low or unknown).
CheckUnixPermissions(g) ==
    /\ Checking(g, "Unix Permissions")
    /\ \E status \in {"ERROR", "WARNING", "OK"} : Result(g, status)
    /\ UNCHANGED <<fs, now, fileLocks, locked, held, call, user, want, tmp, cf, open, bk,
                   rd, pre, faults, viper>>

\* CheckNixDaemon: without the daemon socket OK; else systemctl is-active
\* (which prints "active" when it exits with 0), on its error pgrep, on the
\* error of both ERROR; the status is what systemctl wrote.
CheckNixDaemon(g) ==
    /\ Checking(g, "Nix Daemon")
    /\ CASE loc[g].step = 0 ->
                \/ Result(g, "OK")
                \/ StartOutput(g, NextCall(g))
         [] loc[g].step = 1 ->
                IF ret[g] = "err"
                THEN StartOutput(g, [NextCall(g) EXCEPT !.status = loc[g].cmd.output])
                ELSE Result(g, "OK")
         [] OTHER ->
                IF ret[g] = "err" THEN Result(g, "ERROR")
                ELSE IF loc[g].status # "" THEN Result(g, "WARNING")
                ELSE Result(g, "OK")
    /\ UNCHANGED <<fs, now, fileLocks, locked, held, call, user, want, tmp, cf, open, bk,
                   rd, pre, faults, viper>>

\* CheckNixInstalled: IsNixInstalled and the LookPath calls of
\* CheckNixInstallation fail as the system has it; then nix --version by
\* CheckNixInstallation and once more by GetNixVersion.
CheckNixInstalled(g) ==
    /\ Checking(g, "Nix Installation")
    /\ CASE loc[g].step = 0 ->
                \/ Result(g, "ERROR")
                \/ Start(g, NextCall(g))
         [] loc[g].step = 1 ->
                IF ret[g] = "err" THEN Result(g, "ERROR") ELSE Start(g, NextCall(g))
         [] OTHER ->
                IF ret[g] = "err" THEN Result(g, "WARNING") ELSE Result(g, "OK")
    /\ UNCHANGED <<fs, now, fileLocks, locked, held, call, user, want, tmp, cf, open, bk,
                   rd, pre, faults, viper>>

\* CheckNixChannels: GetChannelInfo runs nix-channel --list; an error or no
\* output is a WARNING.
CheckNixChannels(g) ==
    /\ Checking(g, "Nix Channels")
    /\ IF loc[g].step = 0 THEN Start(g, NextCall(g))
       ELSE IF ret[g] = "err" \/ loc[g].cmd.output = "" THEN Result(g, "WARNING")
       ELSE Result(g, "OK")
    /\ UNCHANGED <<fs, now, fileLocks, locked, held, call, user, want, tmp, cf, open, bk,
                   rd, pre, faults, viper>>

\* CheckFlakes: CheckFlakeSupport runs nix flake --version.
CheckFlakes(g) ==
    /\ Checking(g, "Flakes Support")
    /\ IF loc[g].step = 0 THEN Start(g, NextCall(g))
       ELSE IF ret[g] = "err" THEN Result(g, "WARNING")
       ELSE Result(g, "OK")
    /\ UNCHANGED <<fs, now, fileLocks, locked, held, call, user, want, tmp, cf, open, bk,
                   rd, pre, faults, viper>>

\* CheckConfiguration: ValidateConfig(), then viper.ConfigFileUsed()
CheckConfiguration(g) ==
    /\ Checking(g, "NSM Configuration")
    /\ IF ValidateConfig(viper) # <<>> THEN Result(g, "ERROR")
       ELSE IF ConfigFileUsed(viper) = NoPath THEN Result(g, "WARNING")
       ELSE Result(g, "OK")
    /\ UNCHANGED <<fs, now, fileLocks, locked, held, call, user, want, tmp, cf, open, bk,
                   rd, pre, faults, viper>>

\* CheckProjectFiles: GetProjectConfigType, FileExists, then ParsePackageList:
\* ExtractShellNixPackages or ExtractFlakePackages read the file with
\* ReadFile and SafeRead; a read error and a flake without a list are a
\* WARNING.
CheckProjectFiles(g) ==
    /\ Checking(g, "Project Files")
    /\ LET configType == GetProjectConfigType
       IN  IF loc[g].step = 0
           THEN IF configType = NoPath
                THEN /\ Result(g, "WARNING")
                     /\ UNCHANGED <<call, fileLocks, want>>
                ELSE /\ call' = [call EXCEPT ![g].path = configType]
                     /\ fileLocks' = LoadOrStore(configType)
                     /\ want' = [want EXCEPT ![g] = Clean(configType)]
                     /\ pc' = [pc EXCEPT ![g] = "sr_open"]
                     /\ loc' = [loc EXCEPT ![g] = NextCall(g)]
                     /\ UNCHANGED ret
           ELSE /\ IF ret[g] = "err" THEN Result(g, "WARNING")
                   ELSE IF call[g].path = flakeNix /\ FlakeSection(rd[g][1]) = <<>>
                   THEN Result(g, "WARNING")
                   ELSE Result(g, "OK")
                /\ UNCHANGED <<call, fileLocks, want>>
    /\ UNCHANGED <<fs, now, locked, held, user, tmp, cf, open, bk, rd, pre, faults, viper>>

\* The directory of the project: without a descriptor, with a shell.nix that
\* lists gcc, or with a flake.nix whose devShell has no buildInputs list.
Projects ==
    {<<NoPath, <<>>>>,
     <<shellNix, Render(Descriptor(shellNix, "lines", <<mkShell, packagesWith>>,
                                   <<Entry(indent \o gcc, <<gcc>>)>>, shellClose, <<>>,
                                   brace))>>,
     <<flakeNix, Join(<<devShell, devShellClose>>, <<"\n">>)>>}

\* The nsm doctor command in one of these directories and with the settings
\* nsm starts with: from a configuration file, from the defaults alone, or
\* without either.
DiagnosticsInit ==
    /\ Idle
    /\ \E file \in {NoFile, File(CurrentDocument)}, d \in {NoLayer, Defaults},
          project \in Projects :
        /\ fs = [f \in Files |-> IF f = configFile THEN file
                                 ELSE IF f = project[1] THEN File(project[2])
                                 ELSE NoFile]
        /\ viper = setupConfig(file, d)
    /\ faults = MaxFaults

\* The steps of the goroutine that runs the diagnostics
DiagnosticsStep(g) ==
    \/ CheckUnixPermissions(g)
    \/ CheckNixDaemon(g)
    \/ CheckNixInstalled(g)
    \/ CheckNixChannels(g)
    \/ CheckFlakes(g)
    \/ CheckConfiguration(g)
    \/ CheckProjectFiles(g)
    \/ Output(g)
    \/ Select(g)
    \/ MutexLock(g)
    \/ SR_Open(g)
    \/ SR_Read(g)

DiagnosticsNext ==
    \E g \in Procs :
        \/ (\A h \in Procs \ {g} : pc[h] = "idle") /\ RunDiagnostics(g)
        \/ DiagnosticsStep(g)
        \/ ProcessWrites(g)
        \/ \E status \in {"ok", "failed"} : ProcessExits(g, status)
        \/ Timeout(g)
        \/ Wait(g)

\* The program takes its steps, the timers of the contexts expire and the
\* goroutines that wait for a process are scheduled; no process has to end.
SpecDiagnostics ==
    /\ DiagnosticsInit
    /\ [][DiagnosticsNext]_vars
    /\ \A g \in Procs :
        WF_vars(DiagnosticsStep(g)) /\ WF_vars(Timeout(g)) /\ WF_vars(Wait(g))

\* ------------------------------------------------------------ termination
\* The steps of goroutine g inside RemovePath and CopyFile
RemoveStep(g) ==
    \/ MutexLock(g)
    \/ RP_Stat(g)
    \/ RP_Remove(g)
    \/ CF_LockDst(g)
    \/ CF_Copy(g)
    \/ CF_Rename(g)

\* "a" is a file, a directory or not there; "b" is not there.
RemoveInit ==
    /\ Idle
    /\ \E a \in {NoFile, File(InitialData), Dir} :
        fs = [f \in Files |-> IF f = A THEN a ELSE NoFile]
    /\ faults = MaxFaults
    /\ viper = NoSettings

\* Goroutines remove "a" and copy it to "b"; no I/O call fails.
RemoveNext ==
    \/ Tick
    \/ \E g \in Procs :
        \/ RemovePath(g, A)
        \/ CopyFile(g, A, B)
        \/ RemoveStep(g)

\* Every goroutine that can take a step takes one in the end.
SpecRemove ==
    RemoveInit /\ [][RemoveNext]_vars /\ \A g \in Procs : WF_vars(RemoveStep(g))

\* The steps of goroutine g inside CopyFile
CopyStep(g) ==
    \/ MutexLock(g)
    \/ CF_LockDst(g)
    \/ CF_Copy(g)
    \/ CF_Rename(g)

\* Goroutines copy "a" to "b" and "b" to "a", two files that exist; no I/O
\* call fails.
CopiesInit ==
    /\ Idle
    /\ fs = [f \in Files |-> IF f \in {A, B} THEN File(InitialData) ELSE NoFile]
    /\ faults = MaxFaults
    /\ viper = NoSettings

CopiesNext ==
    \E g \in Procs :
        \/ \E src \in {A, B}, dst \in {A, B} : CopyFile(g, src, dst)
        \/ CopyStep(g)

SpecCopies ==
    CopiesInit /\ [][CopiesNext]_vars /\ \A g \in Procs : WF_vars(CopyStep(g))

\* ------------------------------------------------------------ properties
\* The contents a caller ever asked to be stored, or found at first.
Complete == {InitialData} \cup {DataOf(g) : g \in Procs}

\* What may be at a path: nothing, a directory, or a complete file.
Whole(content) == content \in {NoFile, Dir} \cup {File(d) : d \in Complete}

\* The goroutine takes a step of its code.
Steps(g) == <<pc[g], want[g]>> # <<pc'[g], want'[g]>>

Writes(g) == call[g].op = "SafeWrite"

\* C1: at every moment every path holds nothing or one complete content (what
\* it held at first or the whole data of one SafeWrite), and SafeRead, also
\* when it runs while the path is replaced, returns one complete content.
C1_Atomic ==
    /\ \A f \in Files : Whole(fs[f])
    /\ \A g \in Procs :
        call[g].op = "SafeRead" /\ ret[g] = "ok" => rd[g] # NoFile /\ Whole(rd[g])

\* A SafeWrite has replaced "a", and a SafeRead of "a" has returned the whole
\* first content.
C1_Witness ==
    \E g \in Procs, h \in Procs :
        /\ Writes(g) /\ ret[g] = "ok" /\ fs[A] = File(DataOf(g))
        /\ call[h].op = "SafeRead" /\ ret[h] = "ok" /\ rd[h] = File(InitialData)

\* C2: a SafeWrite that has not returned nil never changes what is at its
\* path, and when it returns an error its temporary file is gone.
C2_FailureLeavesTarget ==
    [][\A g \in Procs :
        (call'[g].op = "SafeWrite" /\ Steps(g) /\ ret'[g] # "ok") =>
            /\ fs'[FileOf(call'[g].path)] = fs[FileOf(call'[g].path)]
            /\ (ret'[g] = "err" => tmp'[g] = NoFile /\ pc'[g] = "ret")]_vars

\* A SafeWrite on an existing file took its backup, failed at the rename and
\* left the file as it was.
C2_Witness ==
    \E g \in Procs :
        /\ Writes(g) /\ ret[g] = "err" /\ bk[g] = "ok"
        /\ tmp[g] = NoFile /\ pre[g] = File(InitialData) /\ fs[A] = pre[g]

\* C3: two goroutines never hold the lock of the same path at the same time.
C3_MutualExclusion ==
    \A g \in Procs, h \in Procs : g # h => held[g] \cap held[h] = {}

\* One goroutine holds the lock of a path through one spelling while another
\* waits for it through another spelling.
C3_Witness ==
    \E g \in Procs, h \in Procs :
        /\ g # h /\ want[g] \in held[h]
        /\ user[g] # user[h] /\ pc[g] = "cs" /\ user[h] # NoPath

\* The path the goroutine's current AcquireLock, SafeWrite or SafeRead is on.
OpPath(g) == IF pc[g] = "cs" THEN user[g] ELSE call[g].path

\* C4: a goroutine waits for a lock only when the goroutine holding it works
\* on the same file: the lock it waits for is the lock of its own path (or of
\* a backup of it), never the lock of another path.
C4_Independent ==
    \A g \in Procs, h \in Procs :
        want[g] \in held[h] => want[g][1] = ResolveName(OpPath(g)[1])

\* While one goroutine holds the lock of "a", another has written "b" and
\* returned.
C4_Witness ==
    \E g \in Procs, h \in Procs :
        /\ g # h /\ user[h] = A /\ A \in held[h]
        /\ Writes(g) /\ call[g].path = B /\ ret[g] = "ok" /\ bk[g] = "ok"

\* C5: a goroutine that holds the lock of a path and calls SafeWrite on that
\* path is never left waiting for the lock it holds itself.
C5_LockedWriteCompletes ==
    \A g \in Procs :
        (user[g] # NoPath /\ Writes(g) /\ Clean(call[g].path) = Clean(user[g])) =>
            ~(want[g] \in held[g])

AllReturned == \A g \in Procs : pc[g] = "ret"

\* C6: when every goroutine calls SafeWrite on the same existing path, all
\* calls return, all return nil, and the path then holds the whole data of one
\* of them.
C6_ConcurrentWrites ==
    /\ <>AllReturned
    /\ [](AllReturned =>
            /\ \A g \in Procs : ret[g] = "ok"
            /\ \E g \in Procs : fs[A] = File(DataOf(g)))

\* All goroutines have returned, each after its backup.
C6_Witness ==
    /\ AllReturned
    /\ \A g \in Procs : Writes(g) /\ bk[g] = "ok"
    /\ fs[A] = File(DataOf(1))

\* The backups of a path.
Backups(path) == {<<ResolveName(path[1]), t>> : t \in Stamps}

C8_LocksReleased ==
    \A g \in Procs : pc[g] = "ret" => held[g] = {}

\* A CopyFile, which took two locks, has returned nil, and a SafeWrite has
\* returned the error of the rename it made under its lock, after its backup;
\* neither holds a lock.
C8_Witness ==
    \E g \in Procs, h \in Procs :
        /\ call[g].op = "CopyFile" /\ pc[g] = "ret" /\ ret[g] = "ok"
        /\ Writes(h) /\ pc[h] = "ret" /\ ret[h] = "err" /\ bk[h] = "ok"
        /\ held[g] = {} /\ held[h] = {}

SettingsOps == {"SaveConfig", "MigrateConfig", "configSet"}

\* The goroutine is inside a settings operation: it has made the first step
\* of it and has not returned.
InProgress(g) == call[g].op \in SettingsOps /\ pc[g] \notin {"idle", "ret"}

\* C9: two settings operations on the settings file are never in progress at
\* the same time: one has made all its steps before the other makes its first.
C9_NeverInterleave ==
    \A g \in Procs, h \in Procs : g # h => ~(InProgress(g) /\ InProgress(h))

\* The rules the document of a SaveConfig call violates.
Violations(config) == ValidateConfig(SetConfig(NoSettings, config))

\* The goroutine's operation is SaveConfig of a document that violates a rule.
SavesInvalid(g) ==
    /\ call[g].op = "SaveConfig"
    /\ Len(loc[g].config) = 1
    /\ Len(Violations(loc[g].config[1])) > 0

RuleKeys == {"channel.url", "shell.format", "default.packages", "config_version", "pins"}

\* A package name: not empty, of letters, digits, "-", "_" and ".".
NameRule(name) == name # <<>> /\ {name[i] : i \in 1..Len(name)} \subseteq validChars

\* A version: three non-negative integers with dots between them (after an
\* optional "v", which the program allows).
Dots(s) == {i \in 1..Len(s) : s[i] = "."}
VersionRule(version) ==
    LET s == IF Len(version) > 0 /\ version[1] = "v" THEN Tail(version) ELSE version
    IN  /\ Cardinality(Dots(s)) = 2
        /\ \A i \in 1..Len(s) : s[i] \in Digits \cup {"."}
        /\ 1 \notin Dots(s) /\ Len(s) \notin Dots(s)
        /\ \A i \in Dots(s) : i + 1 \notin Dots(s)

\* How many rules of the key the document in viper violates.
Violated(v, key) ==
    CASE key = "channel.url" ->
            IF \/ GetString(v, "channel.url") = <<>>
               \/ /\ ~HasPrefix(GetString(v, "channel.url"), nixos_)
                  /\ ~HasPrefix(GetString(v, "channel.url"), nixpkgs_)
            THEN 1 ELSE 0
      [] key = "shell.format" ->
            IF GetString(v, "shell.format") \in {shell_nix, flake_nix} THEN 0 ELSE 1
      [] key = "default.packages" ->
            IF ~IsSet(v, "default.packages") THEN 1
            ELSE LET packages == GetStringSlice(v, "default.packages")
                 IN  Cardinality({i \in 1..Len(packages) : ~NameRule(packages[i])})
      [] key = "config_version" ->
            IF VersionRule(GetString(v, "config_version")) THEN 0 ELSE 1
      [] key = "pins" ->
            LET pins == GetStringMapString(v, "pins")
            IN  Cardinality({i \in 1..Len(pins) : ~NameRule(pins[i][1])})
                + Cardinality({i \in 1..Len(pins) : ~VersionRule(pins[i][2])})

\* The entries of the list that have the key.
Keyed(errors, key) == Cardinality({i \in 1..Len(errors) : errors[i][1] = key})

\* C11: the list ValidateConfig returns has, for each key, one entry for
\* every rule of that key the document violates, and no other entry: it is
\* empty for a valid document.
C11_ReportsEveryRule ==
    \A g \in Procs :
        (call[g].op = "ValidateConfig" /\ pc[g] = "ret") =>
            \A key \in RuleKeys : Keyed(loc[g].errors, key) = Violated(viper, key)

\* The goroutine's call of MigrateConfig has returned nil.
HasMigrated(g) == call[g].op = "MigrateConfig" /\ pc[g] = "ret" /\ ret[g] = "ok"

\* C12: of two calls of MigrateConfig in succession the second one finds
\* nothing to save and leaves the settings file as the first one left it, so
\* the two calls write the file at most once.
C12_MigrateTwice ==
    \A g \in Procs, h \in Procs :
        (g # h /\ HasMigrated(g) /\ HasMigrated(h)) =>
            \E second \in {g, h} :
                ~loc[second].needsSave /\ fs[configFile] = pre[second]

\* No other goroutine has called anything.
Alone(g) == \A h \in Procs \ {g} : pc[h] = "idle"

\* C13: one call of MigrateConfig on the document that has only the old flat
\* channel key ends with channel.url at the value of that key, the flat key
\* without the value, config_version 1.1.0 and the defaults elsewhere.
C13_LegacyChannelMigrated ==
    \A g \in Procs :
        (HasMigrated(g) /\ Alone(g) /\ viper.config = LegacyDocument) =>
            /\ GetString(viper, "channel.url") = nixos_unstable
            /\ GetString(viper, "channel") # nixos_unstable
            /\ GetString(viper, "config_version") = v1_1_0
            /\ GetString(viper, "shell.format") = shell_nix
            /\ GetStringSlice(viper, "default.packages") = <<>>
            /\ GetStringMapString(viper, "pins") = <<>>

\* The number a string of digits stands for.
DigitValue(c) == CHOOSE n \in 0..9 : <<"0", "1", "2", "3", "4", "5", "6", "7", "8", "9">>[n + 1] = c
RECURSIVE Number(_)
Number(s) ==
    IF Len(s) = 0 THEN 0
    ELSE Number(SubSeq(s, 1, Len(s) - 1)) * 10 + DigitValue(s[Len(s)])

\* Version a is lower than version b (both of three numbers).
Lower(a, b) ==
    LET x == [i \in 1..3 |-> Number(Split(a, ".")[i])]
        y == [i \in 1..3 |-> Number(Split(b, ".")[i])]
    IN  \/ x[1] < y[1]
        \/ x[1] = y[1] /\ x[2] < y[2]
        \/ x[1] = y[1] /\ x[2] = y[2] /\ x[3] < y[3]

\* The schema version the settings file holds, <<>> when it holds none.
StoredVersion(file) ==
    IF Len(file) = 1 /\ file # Dir /\ Len(file[1]["config_version"]) = 1
    THEN file[1]["config_version"][1]
    ELSE <<>>

\* C14: no step of a settings operation replaces the schema version in the
\* settings file by a lower one.
C14_VersionNeverDecreases ==
    [][LET old == StoredVersion(fs[configFile])
           new == StoredVersion(fs[configFile])'
       IN  (VersionRule(old) /\ VersionRule(new)) => ~Lower(new, old)]_vars

\* The versions MigrateConfig knows.
KnownVersions == {v1_0_0, v1_1_0}

\* C15: MigrateConfig on a settings file whose config_version is a version it
\* does not know finds nothing to save, sets no key and writes no file.
C15_UnknownVersionUntouched ==
    \A g \in Procs :
        /\ call[g].op = "MigrateConfig"
        /\ Alone(g)
        /\ VersionRule(StoredVersion(pre[g]))
        /\ StoredVersion(pre[g]) \notin KnownVersions
        => /\ ~loc[g].needsSave
           /\ viper.override = NoLayer
           /\ fs[configFile] = pre[g]

\* C16: a step of MigrateConfig that changes a settings file that existed is
\* made after the backup step of the call has succeeded, and a backup file
\* holds the content the step replaces.
C16_MigrationBackupFirst ==
    [][\A g \in Procs :
        /\ call[g].op = "MigrateConfig"
        /\ Steps(g)
        /\ fs[configFile] # NoFile
        /\ fs'[configFile] # fs[configFile]
        => /\ bk[g] = "ok"
           /\ \E b \in Backups(configFile) : fs[b] = fs[configFile]]_vars

\* The configs of the two tests: only pins set, and a loaded config with the
\* channel changed.
TestedConfigs == {c \in Saved : c = Val(PinsOnly) \/ c[1].ChannelURL = nixpkgs_unstable}

\* C17: SaveConfig of a config with only pins set, or of a loaded config with
\* the channel changed, returns nil, and the LoadConfig that follows returns
\* the pins and the channel that were saved.
C17_SaveThenLoad ==
    [][\A g \in Procs, h \in Procs :
        /\ call[g].op = "SaveConfig" /\ pc[g] = "ret" /\ loc[g].config \in TestedConfigs
        /\ pc[h] = "idle" /\ call'[h].op = "LoadConfig"
        => /\ ret[g] = "ok"
           /\ loc'[h].config[1].Pins = loc[g].config[1].Pins
           /\ loc[g].config[1].ChannelURL # <<>>
                => loc'[h].config[1].ChannelURL = loc[g].config[1].ChannelURL]_vars

\* The text of every descriptor of Descriptors.
Rendered == [d \in Descriptors |-> Render(d)]

\* nsm list has returned to goroutine g.
Listing(g) == call[g].op = "list" /\ pc[g] = "ret"

\* C18: package extraction returns exactly the packages that stand in the
\* package list of the descriptor, in the order of the file, for both
\* dialects: every package of a line that lists several, nothing for a blank
\* line, a comment line or a line outside the list, and for flake.nix both
\* from the list after `with ...;` and from the bare list.
C18_ExtractsTheList ==
    \A g \in Procs : \A d \in Descriptors :
        (Listing(g) /\ pre[g] = File(Rendered[d])) =>
            ret[g] = "ok" /\ loc[g].packages = Listed(d.body)

\* nsm add has written the descriptor and returned to goroutine g, and no
\* other goroutine has begun anything.
Added(g) == call[g].op = "add" /\ pc[g] = "ret" /\ ret[g] = "ok" /\ Alone(g)

\* One line for each package, indented like the lines of Entries.
NewLines(args) == [i \in 1..Len(args) |-> indent \o args[i]]

\* The descriptor d with a line for each package of args above the line that
\* closes its package list, and every other line as it was.
WithLines(d, args) ==
    Join(d.open \o Texts(d.body) \o NewLines(args) \o <<d.close>> \o d.after, <<"\n">>)

\* C19: adding packages to a descriptor puts one whole line for each new
\* package directly above the line that closes the package list, indented
\* like the entries, and every line the file had, the closing line with
\* its indentation too, is byte for byte the same afterwards.
C19_AddKeepsEveryLine ==
    \A g \in Procs : \A d \in Descriptors :
        (Added(g) /\ d.form = "lines" /\ pre[g] = File(Rendered[d])) =>
            fs[d.path] = File(WithLines(d, loc[g].args))

\* nsm remove has returned to goroutine g without an error, and no other
\* goroutine has begun anything.
Removed(g) == call[g].op = "remove" /\ pc[g] = "ret" /\ ret[g] = "ok" /\ Alone(g)

\* The lines of the package list of d that begin with a name of toRemove; the
\* one line of an inline list begins with buildInputs.
Matching(d, toRemove) ==
    IF d.form = "inline" THEN {}
    ELSE {i \in 1..Len(d.body) :
             d.body[i].tokens # <<>> /\ d.body[i].tokens[1] \in toRemove}

RECURSIVE Without(_, _, _)
Without(lines, drop, i) ==
    IF i > Len(lines) THEN <<>>
    ELSE (IF i \in drop THEN <<>> ELSE <<lines[i]>>) \o Without(lines, drop, i + 1)

\* The descriptor d without the lines of Matching, every other line as it was.
WithoutLines(d, toRemove) ==
    IF d.form = "inline" THEN Rendered[d]
    ELSE Join(d.open \o Without(Texts(d.body), Matching(d, toRemove), 1)
                  \o <<d.close>> \o d.after, <<"\n">>)

\* C20: package removal deletes exactly the lines inside the package list
\* whose first field is a name of toRemove and counts them, and every other
\* line, inside the list and outside it, stays byte for byte the same; when
\* no name matches, the count is 0 and the content is the same, without error.
C20_RemovesMatchingLines ==
    \A g \in Procs : \A d \in Descriptors :
        (Removed(g) /\ pre[g] = File(Rendered[d])) =>
            LET toRemove == {loc[g].args[i] : i \in 1..Len(loc[g].args)}
            IN  /\ loc[g].removed = Cardinality(Matching(d, toRemove))
                /\ fs[d.path] = File(WithoutLines(d, toRemove))

\* c.Run() has returned to goroutine g.
Ran(g) == call[g].op \in RunOps /\ pc[g] = "ret"

\* C22: every call of NixCommand.Run returns in the end; a command that has
\* not ended when its timeout expires is killed and the call returns an error
\* and no output; output comes only with a nil error, from a command that
\* ended with exit status 0.
C22_RunReturns ==
    /\ [](\A g \in Procs :
            Ran(g) =>
                /\ loc[g].cmd.process # "running"
                /\ loc[g].cmd.process = "killed" =>
                        loc[g].cmd.err # "nil" /\ loc[g].cmd.output = ""
                /\ loc[g].cmd.err # "nil" => loc[g].cmd.output = ""
                /\ loc[g].cmd.output # "" =>
                        loc[g].cmd.err = "nil" /\ loc[g].cmd.process = "ok")
    /\ \A g \in Procs : (pc[g] = "select") ~> (pc[g] = "ret")

\* A command that had written a part of its output was killed by the timeout,
\* and the call has returned the error.
C22_Witness ==
    \E g \in Procs :
        /\ Ran(g)
        /\ loc[g].cmd.process = "killed"
        /\ loc[g].cmd.stdout = "partial"
        /\ loc[g].cmd.err = "timeout"

\* The errors that are shaped like a lost connection or a timeout.
Transient == {"transient", "timeout", "killed"}

\* C23: a command of the toolchain that fails with a transient error is run
\* again, up to a bounded number of attempts, before the failure is reported;
\* a command that fails with another error is run once.
C23_TransientRetried ==
    \A g \in Procs :
        (Ran(g) /\ call[g].op \in {"UpdateChannel", "CollectGarbage"}) =>
            /\ loc[g].cmd.err \in Transient => loc[g].cmd.attempts > 1
            /\ loc[g].cmd.err \in {"failed", "start"} => loc[g].cmd.attempts = 1

\* RunDiagnostics has returned its results to goroutine g.
Diagnosed(g) == call[g].op = "RunDiagnostics" /\ pc[g] = "ret"

\* The results are those of the first checks, one for each, in their order.
InOrder(results) ==
    /\ Len(results) <= Len(Checks)
    /\ \A i \in 1..Len(results) : results[i].Name = Checks[i]

\* C21: a diagnostics run that has started always completes with one result
\* for each check, in the order of the checks, each with one of the four
\* statuses, whatever the earlier checks found.
C21_DiagnosticsComplete ==
    /\ [](\A g \in Procs :
            call[g].op = "RunDiagnostics" =>
                /\ InOrder(loc[g].results)
                /\ \A i \in 1..Len(loc[g].results) :
                        loc[g].results[i].Status \in {"OK", "WARNING", "ERROR", "UNKNOWN"}
                /\ Diagnosed(g) => Len(loc[g].results) = Len(Checks))
    /\ \A g \in Procs : (call[g].op = "RunDiagnostics") ~> Diagnosed(g)

\* AcquireLock(path) has returned its lock to goroutine g.
Acquired(g) == user[g] # NoPath /\ want[g] = NoPath

\* C24: all AcquireLock calls that name the same file, in whatever spelling
\* (relative or absolute, with dot segments), obtain the same lock object, the
\* entry of the registry under one key, and an entry of the registry is never
\* removed.
C24_OneLockPerFile ==
    /\ [](\A g, h \in Procs :
            (Acquired(g) /\ Acquired(h) /\ FileOf(user[g]) = FileOf(user[h]))
                => Clean(user[g]) = Clean(user[h]))
    /\ [][fileLocks \subseteq fileLocks']_vars

\* C25: a backup file is write-once: once path.<timestamp>.backup exists, no
\* later step changes or replaces its content, also when two backups of the
\* path are taken within the same timestamp unit.
C25_BackupWriteOnce ==
    [][\A f \in Files : (f[2] # 0 /\ fs[f] # NoFile) => fs'[f] = fs[f]]_vars

\* C26: whenever a SafeWrite replaces the content of an existing file, also
\* with several SafeWrite calls on the path at the same time and no step
\* failing, a backup file of the path holds exactly the replaced content
\* afterwards.
C26_ReplacedIsBackedUp ==
    [][\A p \in Files :
          (p[2] = 0 /\ Len(fs[p]) = 1 /\ Len(fs'[p]) = 1 /\ fs'[p] # fs[p])
              => \E t \in Stamps : fs'[BackupPath(p, t)] = fs[p]]_vars

\* C27: nsm add reports a requested package as already present only if that
\* exact name is a token of the package list: when none of the requested
\* names is listed, add does not return with duplicates, also when a name is
\* part of the other text before the closing bracket (go where golang is
\* listed).
C27_ExactTokenDuplicates ==
    \A g \in Procs : \A d \in Descriptors :
        (/\ call[g].op = "add" /\ pc[g] = "ret"
         /\ pre[g] = File(Rendered[d])
         /\ \A i \in 1..Len(loc[g].args) : \A j \in 1..Len(Listed(d.body)) :
                loc[g].args[i] # Listed(d.body)[j])
            => ret[g] # "duplicates"

\* C28: RemovePath(path) on an existing regular file always terminates: it
\* returns, with nil, the file removed and the lock of the path released.
C28_RemovePathTerminates ==
    \A g \in Procs :
        (call[g].op = "RemovePath" /\ Len(pre[g]) = 1)
            ~> (pc[g] = "ret" /\ ret[g] = "ok" /\ ~locked[Clean(call[g].path)])

\* C29: concurrent CopyFile calls all return in the end, whatever their
\* arguments, CopyFile(a, b) together with CopyFile(b, a) too.
C29_CopiesReturn ==
    \A g \in Procs : (call[g].op = "CopyFile") ~> (pc[g] = "ret")

\* C30: a SaveConfig call that validation rejects leaves the settings in
\* memory as they were before the call: neither its viper.Set calls nor its
\* return change them, so no later write of another operation can persist a
\* rejected value.
C30_RejectedSaveLeavesMemory ==
    [][\A g \in Procs :
        (/\ call'[g].op = "SaveConfig"
         /\ \E config \in Configs :
                /\ Len(config) = 1
                /\ Len(Violations(config[1])) > 0
                /\ loc'[g].config = config
         /\ pc[g] \in {"idle", "sc_validate"}
         /\ pc'[g] # pc[g])
            => viper' = viper]_vars

====
